---- MODULE Spec2Model ----
(***************************************************************************)
(* Model of DownloadTask (src/downloader.py): one download task, the three *)
(* files it owns on disk, the HTTP server it talks to, and the threads it  *)
(* spawns (segment workers, the single-stream fetcher, the completion      *)
(* watcher).  The filename is fixed: final_path, temp_path and             *)
(* progress_path are the three files of fs.                                *)
(*                                                                         *)
(* Sizes are bytes.  A streaming step writes one burst of at most Burst    *)
(* bytes: several consecutive chunk iterations of the source during which  *)
(* the stop signal was not raised.                                         *)
(***************************************************************************)
EXTENDS Integers, Sequences, FiniteSets, TLC

\* ------------------------------------------------------------ constants
MiB == 1048576
KiB == 1024
SaveEvery == 5242880
max_retries == 3
DefaultChunksPerPart == 10
MaxThreads == 32

\* ------------------------------------------------------------ bounds
\* bytes written by one modelled streaming step
Burst == 524288
\* extra bytes a server that ignores the upper bound of a Range sends
Over == 3
\* generations of segment objects that can be alive at once (0..MaxGen)
MaxGen == 2
\* thread slots
MaxWorkers == 6
MaxFetchers == 2
MaxWatchers == 2

Gens == 0..MaxGen
Workers == 1..MaxWorkers
Fetchers == 1..MaxFetchers
Watchers == 1..MaxWatchers

VARIABLES
    task,   \* the DownloadTask object's fields
    objs,   \* segment dicts, by generation: objs[task.gen] is self.parts
    fs,     \* final_path, temp_path, progress_path
    wk,     \* download_thread / download_part threads
    ft,     \* download_single threads
    cw,     \* check_completion_loop threads
    usr,    \* the caller: position inside cancel(), remaining operations
    srv,    \* the server and the task's construction arguments
    mgr     \* the DownloadManager: registries, files it scans, last answer

vars == <<task, objs, fs, wk, ft, cw, usr, srv, mgr>>

\* ------------------------------------------------------------ helpers
Min(a, b) == IF a < b THEN a ELSE b
Max(a, b) == IF a > b THEN a ELSE b

RECURSIVE SumSeq(_)
SumSeq(s) == IF s = <<>> THEN 0 ELSE Head(s) + SumSeq(Tail(s))

SelectIdx(s, P(_)) == { i \in 1..Len(s) : P(s[i]) }

RECURSIVE SetToSeq(_)
\* the elements of a set of integers in ascending order
SetToSeq(S) ==
    IF S = {} THEN <<>>
    ELSE LET m == CHOOSE x \in S : \A y \in S : x <= y
         IN  <<m>> \o SetToSeq(S \ {m})

NoFile == [exists |-> FALSE, size |-> 0]
NoData == [total_size |-> 0, downloaded_size |-> 0, parts |-> <<>>,
           status |-> "none", thread_count |-> 0,
           switched_to_single_thread |-> FALSE]
NoProgress == [exists |-> FALSE, data |-> NoData]

\* A world: the task, the segment objects and the files, threaded through the
\* sequential code of one method; ret is the method's return value.
World(t, o, f, r) == [t |-> t, o |-> o, f |-> f, ret |-> r]

\* self.parts
Parts(t, o) == IF t.gen \in Gens THEN o[t.gen] ELSE <<>>

AllCompleted(ps) == \A i \in 1..Len(ps) : ps[i].completed

\* ------------------------------------------------------- segment objects
\* generations some thread or the pool still refers to
LiveGens(t, w) ==
    {t.gen} \cup { t.parts_pool[i][1] : i \in 1..Len(t.parts_pool) }
            \cup { w[x].part[1] : x \in { y \in Workers : w[y].pc # "dead" /\ w[y].part # <<>> } }

\* a generation nothing refers to, for a list the code creates
FreshGen(t, w) ==
    LET free == Gens \ LiveGens(t, w)
    IN  IF free = {} THEN -1 ELSE CHOOSE g \in free : \A h \in free : g <= h

SetPartsAt(t, o, ps, g) == [t |-> [t EXCEPT !.gen = g], o |-> [o EXCEPT ![g] = ps]]

\* self.parts = <a new list>
SetParts(t, o, w, ps) == SetPartsAt(t, o, ps, FreshGen(t, w))

\* objects nothing refers to any more are dropped
Collect(t, o, w) == [g \in Gens |-> IF g \in LiveGens(t, w) THEN o[g] ELSE <<>>]

\* ------------------------------------------------------------ Segment Plan
\* _adjust_chunk_size: chunks_per_part and thread_count from total_size (the
\* read buffer size it also sets is below the grain of Burst).  A size is
\* compared as mib * 1024 * 1024 + rem bytes, 0 <= rem < 1024 * 1024, so that
\* the comparisons with sizes of several GiB stay within 32 bits.
\* mib * 1024 * 1024 + rem > k * 1024 * 1024
OverMiBAt(mib, rem, k) == mib > k \/ (mib = k /\ rem > 0)

\* total_size > k * 1024 * 1024
OverMiB(total_size, k) == OverMiBAt(total_size \div MiB, total_size % MiB, k)

\* the chunks_per_part of a positive size
scale_chunks_per_part(mib, rem) ==
    IF OverMiBAt(mib, rem, 10 * 1024) THEN 800
    ELSE IF OverMiBAt(mib, rem, 5 * 1024) THEN 500
    ELSE IF OverMiBAt(mib, rem, 1 * 1024) THEN 300
    ELSE IF OverMiBAt(mib, rem, 500) THEN 200
    ELSE IF OverMiBAt(mib, rem, 100) THEN 150
    ELSE DefaultChunksPerPart

\* the thread_count of a positive size
scale_thread_count(mib, thread_count) ==
    IF mib < 10 THEN Min(thread_count, 5)
    ELSE IF mib < 100 THEN Min(thread_count, 10)
    ELSE thread_count

adjust_chunks_per_part(total_size, chunks_per_part) ==
    IF total_size > 0
    THEN scale_chunks_per_part(total_size \div MiB, total_size % MiB)
    ELSE chunks_per_part

adjust_thread_count(total_size, thread_count) ==
    IF total_size > 0
    THEN scale_thread_count(total_size \div MiB, thread_count)
    ELSE thread_count

adjust_chunk_size(t) ==
    [t EXCEPT !.chunks_per_part = adjust_chunks_per_part(t.total_size, t.chunks_per_part),
              !.thread_count = adjust_thread_count(t.total_size, t.thread_count)]

\* a segment whose end is taken as exclusive
NewPart_exclusive(i, start, end) ==
    [index |-> i, start |-> start, end |-> end + 1, current |-> start, completed |-> FALSE]

NewPart(i, start, end) ==
    [index |-> i, start |-> start, end |-> end, current |-> start, completed |-> FALSE]

\* the for loop of _init_parts: the indices are taken in order up to the first
\* whose start is not below total_size, so the segments are those of the
\* indices i with i * chunk_size < total_size
init_parts_loop(parts_count, chunk_size, total_size) ==
    [k \in 1..Cardinality({i \in 0..(parts_count - 1) : i * chunk_size < total_size}) |->
        NewPart(k - 1, (k - 1) * chunk_size,
                IF k = parts_count THEN total_size - 1
                ELSE Min(k * chunk_size - 1, total_size - 1))]

\* a plan without the floor of 1 MiB on the nominal segment size
init_parts_list_nofloor(total_size, thread_count, chunks_per_part) ==
    init_parts_loop(thread_count * chunks_per_part,
                    Max(1, total_size \div (thread_count * chunks_per_part)),
                    total_size)

\* the list _init_parts builds for total_size > 0
init_parts_list(total_size, thread_count, chunks_per_part) ==
    LET parts_count == thread_count * chunks_per_part
        chunk_size  == Max(MiB, total_size \div parts_count)
    IN  init_parts_loop(parts_count, chunk_size, total_size)

\* _init_parts
init_parts(t, o, w) ==
    IF t.total_size <= 0
    THEN SetParts([t EXCEPT !.thread_count = 1], o, w, <<>>)
    ELSE SetParts(t, o, w, init_parts_list(t.total_size, t.thread_count, t.chunks_per_part))

\* _init_parts_pool
init_parts_pool(t, o) ==
    [t EXCEPT !.parts_pool =
        [k \in 1..Cardinality(SelectIdx(Parts(t, o), LAMBDA p : ~p.completed)) |->
            <<t.gen, SetToSeq(SelectIdx(Parts(t, o), LAMBDA p : ~p.completed))[k]>>]]

\* ---------------------------------------------------------- Progress Store
\* save_progress
save_progress(t, o, f) ==
    [f EXCEPT !.progress =
        [exists |-> TRUE,
         data |-> [total_size |-> t.total_size,
                   downloaded_size |-> t.downloaded_size,
                   parts |-> Parts(t, o),
                   status |-> t.status,
                   thread_count |-> t.thread_count,
                   switched_to_single_thread |-> t.switched_to_single_thread]]]

\* the sum load_progress takes over the checkpoint's segments
actual_downloaded(ps, total_size) ==
    LET s == SumSeq([i \in 1..Len(ps) |->
                       IF ps[i].current > ps[i].start
                       THEN ps[i].current - ps[i].start ELSE 0])
    IN  IF s > total_size THEN total_size ELSE s

\* the status load_progress leaves
loaded_status(st) ==
    IF st = "error" THEN "paused"
    ELSE IF st \notin {"initialized", "downloading", "paused"} THEN "paused"
    ELSE st

\* load_progress, the check of temp_path once the segments are loaded
load_temp(t, o, f) ==
    IF ~f.temp.exists THEN World(t, o, f, FALSE)
    ELSE IF t.total_size > 0 /\ f.temp.size < t.total_size
         \* opened 'ab': the byte lands at the end of the file
         THEN World(t, o, [f EXCEPT !.temp.size = @ + 1], TRUE)
         ELSE World(t, o, f, TRUE)

load_parts(sp, f) == load_temp(sp.t, sp.o, f)

\* load_progress, from the check of the loaded status on
load_status(t, o, f, w, d) ==
    IF d.status = "completed" THEN World(t, o, f, FALSE)
    ELSE IF d.parts = <<>>
         THEN World([t EXCEPT !.status = loaded_status(d.status)], o, f, TRUE)
         ELSE load_parts(SetParts([t EXCEPT !.status = loaded_status(d.status)],
                                  o, w, d.parts), f)

\* load_progress, from the checkpoint d read from progress_path on: the fields
\* are assigned as the code reaches them, also on the paths that return False
load_fields(t, o, f, w, d) ==
    load_status([t EXCEPT !.total_size = d.total_size,
                          !.thread_count = d.thread_count,
                          !.switched_to_single_thread = d.switched_to_single_thread,
                          !.downloaded_size =
                              IF d.parts # <<>>
                              THEN actual_downloaded(d.parts, d.total_size)
                              ELSE Min(d.downloaded_size, d.total_size),
                          !.status = d.status],
                o, f, w, d)

\* load_progress
load_progress(t, o, f, w) ==
    IF ~f.progress.exists THEN World(t, o, f, FALSE)
    ELSE load_fields(t, o, f, w, f.progress.data)

\* ------------------------------------------------------------------ prepare
\* A HEAD response: ok (status 200 or 206, no exception), the Accept-Ranges:
\* bytes header, and Content-Length when the server sends one.
HeadResp(ok, accept, haslen, len) ==
    [ok |-> ok, accept |-> accept, haslen |-> haslen, len |-> len]

\* self.thread_count = 1; self.parts = []
single_mode(t, o, w) == SetParts([t EXCEPT !.thread_count = 1], o, w, <<>>)

\* prepare, a proxy answered and the server takes ranges
head_ranges(t, o, w) ==
    IF t.total_size < 1024 * 1024 THEN single_mode(t, o, w)
    ELSE IF Parts(t, o) = <<>> THEN init_parts(adjust_chunk_size(t), o, w)
    ELSE [t |-> adjust_chunk_size(t), o |-> o]

head_mode(t, o, w) ==
    IF t.supports_range THEN head_ranges(t, o, w) ELSE single_mode(t, o, w)

\* prepare, a HEAD without proxy
head_direct(t, r) ==
    [t EXCEPT !.supports_range = r.accept,
              !.total_size = IF r.haslen THEN r.len ELSE @]

\* prepare, the body of the loop over the proxies for the proxy that answers
head_via_proxy(t, o, w, r) == head_mode(head_direct(t, r), o, w)

\* prepare, after the loop over the proxies
head_fallback(a, hd) ==
    IF a.t.total_size = 0 /\ hd.ok THEN [t |-> head_direct(a.t, hd), o |-> a.o] ELSE a

\* prepare: the HEAD requests
head_requests(t, o, w, hp, hd) ==
    IF t.proxies > 0
    THEN head_fallback(IF hp.ok THEN head_via_proxy(t, o, w, hp) ELSE [t |-> t, o |-> o],
                       hd)
    ELSE IF hd.ok THEN [t |-> head_direct(t, hd), o |-> o]
         ELSE [t |-> t, o |-> o]

\* prepare, the temp file and the pool of a multi-stream task, the status
prepare_files(t, o, f) ==
    IF t.thread_count > 1 /\ Parts(t, o) # <<>>
    THEN World([init_parts_pool(t, o) EXCEPT !.status = "initialized"], o,
               IF ~f.temp.exists
               THEN [f EXCEPT !.temp = [exists |-> TRUE, size |-> t.total_size]]
               ELSE f,
               TRUE)
    ELSE World([t EXCEPT !.status = "initialized"], o, f, TRUE)

prepare_end(c, f) == prepare_files(c.t, c.o, f)

\* prepare, a paused task without a usable checkpoint
prepare_paused(t, o, f, w) ==
    IF t.status = "paused" /\ (~f.progress.exists \/ Parts(t, o) = <<>>)
    THEN IF t.supports_range /\ t.total_size > 1024 * 1024
         THEN prepare_end(init_parts(adjust_chunk_size(t), o, w), f)
         ELSE prepare_end(single_mode(t, o, w), f)
    ELSE prepare_files(t, o, f)

prepare_known(b, f, w) == prepare_paused(b.t, b.o, f, w)

\* a prepare that keeps the worker count when no size was learnt
prepare_size_multi(a, f, w) == prepare_known(a, f, w)

\* prepare, no size learnt from any HEAD
prepare_size(a, f, w) ==
    IF a.t.total_size = 0 THEN prepare_known(single_mode(a.t, a.o, w), f, w)
    ELSE prepare_known(a, f, w)

\* prepare, after the progress file was found absent or unusable
prepare_fresh(t, o, f, w, hp, hd) == prepare_size(head_requests(t, o, w, hp, hd), f, w)

\* prepare, after load_progress returned l
prepare_loaded(l, w, hp, hd) ==
    IF l.ret THEN World(l.t, l.o, l.f, TRUE)
    ELSE prepare_fresh(l.t, l.o, [l.f EXCEPT !.progress = NoProgress], w, hp, hd)

\* prepare
prepare(t, o, f, w, hp, hd) ==
    IF f.final.exists
    THEN World([t EXCEPT !.status = "completed",
                         !.total_size = f.final.size,
                         !.downloaded_size = f.final.size], o, f, TRUE)
    ELSE IF f.progress.exists
         THEN prepare_loaded(load_progress(t, o, f, w), w, hp, hd)
         ELSE prepare_fresh(t, o, f, w, hp, hd)

\* ----------------------------------------------------------------- Finalize
\* complete_download, under progress_lock.  The fallback names it looks for
\* when temp_path is missing are not files of this task.
complete_download(t, f) ==
    IF t.status = "completed" THEN [t |-> t, f |-> f]
    ELSE IF f.temp.exists
    THEN [t |-> [t EXCEPT !.status = "completed",
                          !.downloaded_size = IF t.total_size > 0 /\ @ > t.total_size
                                              THEN t.total_size ELSE @],
          f |-> [f EXCEPT !.final = f.temp, !.temp = NoFile, !.progress = NoProgress]]
    ELSE [t |-> [t EXCEPT !.status = "error",
                          !.error_message = "complete_download",
                          !.downloaded_size = IF t.total_size > 0 /\ @ > t.total_size
                                              THEN t.total_size ELSE @],
          f |-> f]

\* ------------------------------------------------------------------ threads
chunk_size == 32768

DeadWorker == [pc |-> "dead", part |-> <<>>, retry |-> 0, tr |-> 0, e416 |-> FALSE,
               rstart |-> 0, pos |-> 0, left |-> 0, h |-> "none", started |-> FALSE]
DeadFetcher == [pc |-> "dead", pos |-> 0, left |-> 0, h |-> "none"]

WorkerId(x)  == <<"w", x>>
FetcherId(x) == <<"f", x>>
WatcherId(x) == <<"c", x>>

\* thread.is_alive()
Alive(id, w, f, c) ==
    \/ id[1] = "w" /\ w[id[2]].pc # "dead"
    \/ id[1] = "f" /\ f[id[2]].pc # "dead"
    \/ id[1] = "c" /\ c[id[2]] # "dead"

\* the segment dict a worker holds
PartOf(o, ref) == o[ref[1]][ref[2]]
SetPart(o, ref, rec) == [o EXCEPT ![ref[1]][ref[2]] = rec]

\* f.write of n bytes at position pos through a handle opened on temp_path;
\* the handle follows the file when it is renamed and outlives its removal
WriteAt(f, h, pos, n) ==
    IF n <= 0 THEN f
    ELSE IF h = "temp" /\ f.temp.exists
         THEN [f EXCEPT !.temp.size = Max(@, pos + n)]
    ELSE IF h = "final" /\ f.final.exists
         THEN [f EXCEPT !.final.size = Max(@, pos + n)]
    ELSE f

\* what open handles on temp_path refer to after the files changed from f to f2
\* (renamed: temp_path was renamed to final_path)
MoveHandle(h, f, f2, renamed) ==
    IF h = "temp" /\ renamed THEN "final"
    ELSE IF h = "final" /\ renamed THEN "gone"
    ELSE IF h = "temp" /\ f.temp.exists /\ ~f2.temp.exists THEN "gone"
    ELSE h

MoveHandles(recs, f, f2, renamed) ==
    [x \in DOMAIN recs |-> [recs[x] EXCEPT !.h = MoveHandle(@, f, f2, renamed)]]

\* complete_download renamed temp_path
Renamed(t, f) == t.status # "completed" /\ f.temp.exists

\* the state after a method ran: unreferenced segment objects are dropped
Commit(t, o, f, w) ==
    /\ task' = t
    /\ objs' = Collect(t, o, w)
    /\ fs' = f
    /\ wk' = w

\* the first len dead slots of a family of threads, in order
FreeSlots(S, dead(_), len) ==
    LET free == { x \in S : dead(x) }
    IN  IF Cardinality(free) < len THEN {}
        ELSE { x \in free : Cardinality({ y \in free : y < x }) < len }

\* ----------------------------------------------------------------- __init__
\* DownloadTask.__init__
NewTask(proxies, thread_count, threads_per_proxy, chunks_per_part) ==
    [status |-> "initialized",
     total_size |-> 0,
     downloaded_size |-> 0,
     thread_count |-> IF proxies > 0
                      THEN Min(proxies * threads_per_proxy, MaxThreads)
                      ELSE Max(1, Min(thread_count, MaxThreads)),
     chunks_per_part |-> chunks_per_part,
     supports_range |-> FALSE,
     switched_to_single_thread |-> FALSE,
     \* how many times download_part has run the single-stream transition
     switches |-> 0,
     \* "", or the method that wrote the message
     error_message |-> "",
     stop_event |-> FALSE,
     gen |-> 0,
     parts_pool |-> <<>>,
     threads |-> {},
     proxies |-> proxies,
     threads_per_proxy |-> threads_per_proxy]

\* the server (body size, Accept-Ranges, Content-Length on HEAD), the faults
\* the network may show, and the arguments the task is constructed with
Server(body, accept, haslen, faults, proxies, thread_count, threads_per_proxy) ==
    [body |-> body, accept |-> accept, haslen |-> haslen, faults |-> faults,
     proxies |-> proxies, thread_count |-> thread_count,
     threads_per_proxy |-> threads_per_proxy]

\* the operations the caller may still issue
User(starts, pauses, resumes, cancels, restarts) ==
    [cancel_pc |-> "idle", starts |-> starts, pauses |-> pauses,
     resumes |-> resumes, cancels |-> cancels, restarts |-> restarts,
     retries |-> 0]

\* no id: the None an operation returns
NoId == <<"none", 0>>

\* what a manager method or the endpoint returned: the operation, its
\* argument (the request path of an HTTP exchange, the name given to
\* add_socks_proxy), the status code, count or truth value, and the id
Returned(op, arg, code, id) == [op |-> op, arg |-> arg, code |-> code, id |-> id]

NoReturn == Returned("none", "", 0, NoId)

\* DownloadManager.__init__ with no configuration file: empty registries,
\* both id counters at 1.  task_ids holds <<id, url>>, tasks <<url, id>>,
\* socks_proxies <<id, name>>; started holds the ids start_task was called
\* with, disk the checkpoint files in the download directories.
NewManager ==
    [task_ids |-> {}, tasks |-> {}, next_id |-> 1, started |-> {},
     socks_proxies |-> {}, next_proxy_id |-> 1,
     disk |-> {}, ret |-> NoReturn]

\* no file of the task on disk, no thread, the task t and the manager m
InitManaged(sv, u, t, m) ==
    /\ srv = sv
    /\ mgr = m
    /\ usr = u
    /\ task = t
    /\ objs = [g \in Gens |-> <<>>]
    /\ fs = [final |-> NoFile, temp |-> NoFile, progress |-> NoProgress]
    /\ wk = [x \in Workers |-> DeadWorker]
    /\ ft = [x \in Fetchers |-> DeadFetcher]
    /\ cw = [x \in Watchers |-> "dead"]

InitTask(sv, u, t) == InitManaged(sv, u, t, NewManager)

\* add_task: the task as constructed
InitWith(sv, u) ==
    InitTask(sv, u, NewTask(sv.proxies, sv.thread_count, sv.threads_per_proxy,
                            DefaultChunksPerPart))

\* -------------------------------------------------------------------- start
\* the HEAD responses the server and the network can give
HeadResps(fault) ==
    { HeadResp(TRUE, srv.accept, srv.haslen, srv.body) }
    \cup (IF fault \in srv.faults THEN { HeadResp(FALSE, FALSE, FALSE, 0) } ELSE {})

\* the answers to the HEAD through the proxies; with the fault "proxydown" no
\* proxy answers it
ProxyHeadResps ==
    IF "proxydown" \in srv.faults THEN { HeadResp(FALSE, FALSE, FALSE, 0) }
    ELSE HeadResps("headfail")

\* start(), the threads: one single-stream fetcher, or the workers and the
\* completion watcher
spawn(t, o, f, single, ws, fx, cx) ==
    IF single
    THEN /\ fx # {}
         /\ ft' = [x \in Fetchers |->
                     IF x \in fx THEN [DeadFetcher EXCEPT !.pc = "get"] ELSE ft[x]]
         /\ cw' = cw
         /\ Commit([t EXCEPT !.threads = { FetcherId(x) : x \in fx }], o, f, wk)
    ELSE /\ ws # {} /\ cx # {}
         /\ ft' = ft
         /\ cw' = [x \in Watchers |-> IF x \in cx THEN "test" ELSE cw[x]]
         /\ Commit([t EXCEPT !.threads = { WorkerId(x) : x \in ws }
                                         \cup { WatcherId(x) : x \in cx }],
                   o, f,
                   [x \in Workers |->
                      IF x \in ws THEN [DeadWorker EXCEPT !.pc = "loop"] ELSE wk[x]])

\* the threads of start() with thread_count workers whatever the proxies
start_threads_by_count(t, o, f) ==
    /\ t.gen \in Gens
    /\ spawn([t EXCEPT !.stop_event = FALSE, !.status = "downloading"], o, f,
             t.switched_to_single_thread \/ (t.thread_count = 1 /\ t.total_size = 0),
             FreeSlots(Workers, LAMBDA x : wk[x].pc = "dead", t.thread_count),
             FreeSlots(Fetchers, LAMBDA x : ft[x].pc = "dead", 1),
             FreeSlots(Watchers, LAMBDA x : cw[x] = "dead", 1))

\* start(), after prepare succeeded
start_threads(t, o, f) ==
    /\ t.gen \in Gens
    /\ spawn([t EXCEPT !.stop_event = FALSE, !.status = "downloading"], o, f,
             t.switched_to_single_thread \/ (t.thread_count = 1 /\ t.total_size = 0),
             FreeSlots(Workers, LAMBDA x : wk[x].pc = "dead",
                       IF t.proxies > 0 THEN t.proxies * t.threads_per_proxy
                       ELSE t.thread_count),
             FreeSlots(Fetchers, LAMBDA x : ft[x].pc = "dead", 1),
             FreeSlots(Watchers, LAMBDA x : cw[x] = "dead", 1))

start_prepared(p) == start_threads(p.t, p.o, p.f)

\* start(): prepare, then the threads.  hp is the answer to the HEAD through
\* the proxies, hd the answer to the HEAD without proxy.
start(hp, hd) ==
    /\ start_prepared(prepare(task, objs, fs, wk, hp, hd))
    /\ UNCHANGED <<srv, mgr>>

Registered == task.status # "unregistered"

\* start_task: called on a task just added (ui.py add_download, http_server.py)
\* and on a restored task found downloading or initialized
\* (ui.py display_restored_tasks)
Start ==
    /\ Registered /\ usr.cancel_pc = "idle"
    /\ usr.starts > 0
    /\ task.status \in {"initialized", "downloading"}
    /\ \E hp \in ProxyHeadResps, hd \in HeadResps("dheadfail") : start(hp, hd)
    /\ usr' = [usr EXCEPT !.starts = @ - 1]

\* resume()
Resume ==
    /\ Registered /\ usr.cancel_pc = "idle"
    /\ usr.resumes > 0
    /\ task.status = "paused"
    /\ \E hp \in ProxyHeadResps, hd \in HeadResps("dheadfail") : start(hp, hd)
    /\ usr' = [usr EXCEPT !.resumes = @ - 1]

\* pause()
Pause ==
    /\ Registered /\ usr.cancel_pc = "idle"
    /\ usr.pauses > 0
    /\ task.status = "downloading"
    /\ LET t1 == [task EXCEPT !.stop_event = TRUE, !.status = "paused"]
       IN  Commit(t1, objs, save_progress(t1, objs, fs), wk)
    /\ usr' = [usr EXCEPT !.pauses = @ - 1]
    /\ UNCHANGED <<ft, cw, srv, mgr>>

\* cancel(), up to the joins
CancelBegin ==
    /\ Registered /\ usr.cancel_pc = "idle"
    /\ usr.cancels > 0
    /\ task' = [task EXCEPT !.stop_event = TRUE, !.status = "canceled"]
    /\ usr' = [usr EXCEPT !.cancels = @ - 1, !.cancel_pc = "join"]
    /\ UNCHANGED <<objs, fs, wk, ft, cw, srv, mgr>>

\* cancel(), after the joins (each gives up after a second): the removals
CancelEnd ==
    /\ usr.cancel_pc = "join"
    /\ LET f2 == [fs EXCEPT !.temp = NoFile, !.progress = NoProgress]
       IN  /\ fs' = f2
           /\ wk' = MoveHandles(wk, fs, f2, FALSE)
           /\ ft' = MoveHandles(ft, fs, f2, FALSE)
    /\ usr' = [usr EXCEPT !.cancel_pc = "done"]
    /\ UNCHANGED <<task, objs, cw, srv, mgr>>

\* ---------------------------------------------------------- download_thread
\* complete_download called by a thread, with the open handles following the
\* rename
DoComplete(t, o, f, w) ==
    LET r  == complete_download(t, f)
        rn == Renamed(t, f)
    IN  /\ Commit(r.t, o, r.f, MoveHandles(w, f, r.f, rn))
        /\ ft' = MoveHandles(ft, f, r.f, rn)

\* if self.downloaded_size % (5 * 1024 * 1024) == 0: self.save_progress()
save_on_tick(t, o, f) ==
    IF t.downloaded_size % SaveEvery = 0 THEN save_progress(t, o, f) ELSE f

\* an except clause that leaves the retry loop on the stop signal only
Raise_unbounded(rec, stop) ==
    [rec EXCEPT !.retry = Min(@ + 1, max_retries + 1),
                !.pc = IF stop THEN "fail" ELSE "try",
                !.tr = 0, !.e416 = FALSE, !.pos = 0, !.left = 0, !.h = "none",
                !.started = FALSE]

\* download_part, the except clause of the retry loop for an error that is
\* not a 416
Raise(rec, stop) ==
    [rec EXCEPT !.retry = @ + 1,
                !.pc = IF rec.retry + 1 >= max_retries \/ stop THEN "fail" ELSE "try",
                !.tr = 0, !.e416 = FALSE, !.pos = 0, !.left = 0, !.h = "none",
                !.started = FALSE]

\* download_part, a transport gave up: the next one, or the except clause
GiveUp(rec, stop) ==
    IF rec.tr < 3
    THEN [rec EXCEPT !.pc = "req", !.tr = @ + 1, !.pos = 0, !.left = 0,
                     !.h = "none", !.started = FALSE]
    ELSE Raise(rec, stop)

\* a get_next_part that returns the first segment and leaves it in the pool
W_loop_peek(x) ==
    /\ wk[x].pc = "loop"
    /\ IF task.stop_event \/ task.parts_pool = <<>>
       THEN Commit(task, objs, fs, [wk EXCEPT ![x] = DeadWorker])
       ELSE Commit(task, objs, fs,
                   [wk EXCEPT ![x] = [DeadWorker EXCEPT !.pc = "try",
                                                        !.part = Head(task.parts_pool)]])
    /\ UNCHANGED <<ft, cw, usr, srv, mgr>>

\* download_thread: the loop test and get_next_part
W_loop(x) ==
    /\ wk[x].pc = "loop"
    /\ IF task.stop_event \/ task.parts_pool = <<>>
       THEN Commit(task, objs, fs, [wk EXCEPT ![x] = DeadWorker])
       ELSE Commit([task EXCEPT !.parts_pool = Tail(@)], objs, fs,
                   [wk EXCEPT ![x] = [DeadWorker EXCEPT !.pc = "try",
                                                        !.part = Head(task.parts_pool)]])
    /\ UNCHANGED <<ft, cw, usr, srv, mgr>>

\* download_part: the top of the retry loop
W_try(x) ==
    /\ wk[x].pc = "try"
    /\ LET p == PartOf(objs, wk[x].part)
       IN  IF p.current >= p.end + 1
           THEN Commit(task,
                       SetPart(objs, wk[x].part,
                               [p EXCEPT !.completed = TRUE, !.current = p.end + 1]),
                       fs, [wk EXCEPT ![x].pc = "save"])
           ELSE Commit(task, objs, fs,
                       [wk EXCEPT ![x].pc = "req",
                                  ![x].tr = IF task.proxies > 0 THEN 1 ELSE 3,
                                  ![x].e416 = FALSE,
                                  ![x].rstart = p.current])
    /\ UNCHANGED <<ft, cw, usr, srv, mgr>>

\* what a range request can come back with; a server with the fault "reject"
\* answers every range request with 416
Outcomes ==
    IF "reject" \in srv.faults THEN {"416"}
    ELSE {"ok"} \cup (srv.faults \cap {"over", "416", "fail"})

\* download_part: the GET of one transport (1 pooled SOCKS client, 2 raw
\* socket, 3 requests) up to the response status and the open of temp_path
W_req(x) ==
    /\ wk[x].pc = "req"
    /\ \E out \in Outcomes :
        LET rec  == wk[x]
            p    == PartOf(objs, rec.part)
            \* transports 1 and 3 send the Range header built at the top of
            \* the retry loop, transport 2 builds its own
            base == IF rec.tr = 2 THEN p.end - p.current + 1
                    ELSE p.end - rec.rstart + 1
            body == IF out = "over" THEN base + Over ELSE base
            r2   == IF out = "416"
                    THEN IF rec.tr < 3
                         THEN [GiveUp(rec, task.stop_event) EXCEPT !.e416 = TRUE]
                         ELSE [rec EXCEPT !.pc = "latch", !.e416 = TRUE]
                    ELSE IF out = "fail" \/ ~fs.temp.exists
                    THEN GiveUp(rec, task.stop_event)
                    ELSE [rec EXCEPT !.pc = "stream", !.pos = p.current,
                                     !.left = body, !.h = "temp", !.started = FALSE]
        IN  Commit(task, objs, fs, [wk EXCEPT ![x] = r2])
    /\ UNCHANGED <<ft, cw, usr, srv, mgr>>

\* the stop signal seen between chunks
StopSeen(x) ==
    LET rec == wk[x]
        p   == PartOf(objs, rec.part)
    IN  Commit(task, SetPart(objs, rec.part, [p EXCEPT !.current = rec.pos]), fs,
               [wk EXCEPT ![x].pc = "ret", ![x].h = "none"])

\* download_part: one chunk of transport 1 or 3
W_stream(x) ==
    /\ wk[x].pc = "stream" /\ wk[x].tr # 2
    /\ LET rec == wk[x]
           p   == PartOf(objs, rec.part)
           n   == Min(Burst, rec.left)
           rem == p.end + 1 - rec.pos
       IN  IF rec.left = 0
           THEN Commit(task, objs, fs, [wk EXCEPT ![x].pc = "done", ![x].h = "none"])
           ELSE IF task.stop_event THEN StopSeen(x)
           ELSE IF rec.pos + n > p.end + 1
           THEN LET t2 == [task EXCEPT !.downloaded_size =
                                           IF rem > 0 THEN @ + rem ELSE @]
                IN  Commit(t2,
                           SetPart(objs, rec.part,
                                   [p EXCEPT !.completed = TRUE, !.current = p.end + 1]),
                           WriteAt(fs, rec.h, rec.pos, rem),
                           [wk EXCEPT ![x].pc = "done", ![x].h = "none"])
           ELSE LET t2 == [task EXCEPT !.downloaded_size = @ + n]
                    o2 == SetPart(objs, rec.part, [p EXCEPT !.current = rec.pos + n])
                IN  Commit(t2, o2, save_on_tick(t2, o2, WriteAt(fs, rec.h, rec.pos, n)),
                           [wk EXCEPT ![x].pos = @ + n, ![x].left = @ - n])
    /\ UNCHANGED <<ft, cw, usr, srv, mgr>>

\* download_part: one recv of transport 2
W_stream_raw(x) ==
    /\ wk[x].pc = "stream" /\ wk[x].tr = 2
    /\ LET rec == wk[x]
           p   == PartOf(objs, rec.part)
           rem == p.end + 1 - rec.pos
           \* the first recv holds the headers and the start of the body
           n   == IF rec.started THEN Min(Burst, rec.left)
                  ELSE Min(chunk_size, rec.left)
           \* chunk[:bytes_remaining]
           cut == IF rem >= 0 THEN rem ELSE Max(n + rem, 0)
       IN  IF task.stop_event THEN StopSeen(x)
           ELSE IF rec.left = 0
           THEN Commit(task, objs, fs, [wk EXCEPT ![x].pc = "done", ![x].h = "none"])
           ELSE IF rec.started /\ n > rem
           THEN LET t2 == [task EXCEPT !.downloaded_size = @ + rem]
                IN  Commit(t2,
                           SetPart(objs, rec.part, [p EXCEPT !.current = rec.pos + cut]),
                           WriteAt(fs, rec.h, rec.pos, cut),
                           [wk EXCEPT ![x].pc = "done", ![x].h = "none"])
           ELSE LET t2 == [task EXCEPT !.downloaded_size = @ + n]
                    o2 == SetPart(objs, rec.part, [p EXCEPT !.current = rec.pos + n])
                IN  Commit(t2, o2, save_on_tick(t2, o2, WriteAt(fs, rec.h, rec.pos, n)),
                           [wk EXCEPT ![x].pos = @ + n, ![x].left = @ - n,
                                      ![x].started = TRUE])
    /\ UNCHANGED <<ft, cw, usr, srv, mgr>>

\* download_part: the connection breaks while the body is read
W_break(x) ==
    /\ wk[x].pc = "stream" /\ wk[x].left > 0
    /\ "break" \in srv.faults
    /\ Commit(task, objs, fs, [wk EXCEPT ![x] = GiveUp(wk[x], task.stop_event)])
    /\ UNCHANGED <<ft, cw, usr, srv, mgr>>

\* download_part: after the transports, a 416 or the segment marked completed
W_done(x) ==
    /\ wk[x].pc = "done"
    /\ LET rec == wk[x]
           p   == PartOf(objs, rec.part)
       IN  IF rec.e416
           THEN Commit(task, objs, fs, [wk EXCEPT ![x].pc = "latch"])
           ELSE Commit(task,
                       SetPart(objs, rec.part,
                               [p EXCEPT !.completed = TRUE, !.current = p.end + 1]),
                       fs, [wk EXCEPT ![x].pc = "save"])
    /\ UNCHANGED <<ft, cw, usr, srv, mgr>>

\* download_part: self.save_progress() after a segment is marked completed
W_save(x) ==
    /\ wk[x].pc = "save"
    /\ Commit(task, objs, save_progress(task, objs, fs), [wk EXCEPT ![x].pc = "check"])
    /\ UNCHANGED <<ft, cw, usr, srv, mgr>>

\* download_part: if all(p['completed'] for p in self.parts): complete_download()
W_check(x) ==
    /\ wk[x].pc = "check"
    /\ IF AllCompleted(Parts(task, objs))
       THEN DoComplete(task, objs, fs, [wk EXCEPT ![x].pc = "ret"])
       ELSE Commit(task, objs, fs, [wk EXCEPT ![x].pc = "ret"]) /\ ft' = ft
    /\ UNCHANGED <<cw, usr, srv, mgr>>

\* download_part: the retries are used up, or the stop signal ended them
W_fail(x) ==
    /\ wk[x].pc = "fail"
    /\ Commit([task EXCEPT !.status = IF task.stop_event THEN "paused" ELSE "error",
                            !.error_message = IF task.stop_event THEN @ ELSE "download_part"],
              objs, save_progress(task, objs, fs), [wk EXCEPT ![x].pc = "ret"])
    /\ UNCHANGED <<ft, cw, usr, srv, mgr>>

\* download_thread: after download_part returned
W_ret(x) ==
    /\ wk[x].pc = "ret"
    /\ IF AllCompleted(Parts(task, objs))
       THEN Commit(task, objs, fs, [wk EXCEPT ![x] = DeadWorker])
       ELSE Commit(task, objs, fs, [wk EXCEPT ![x] = [DeadWorker EXCEPT !.pc = "loop"]])
    /\ UNCHANGED <<ft, cw, usr, srv, mgr>>

\* download_part: with self.switching_lock, up to the sleep
W_latch(x) ==
    /\ wk[x].pc = "latch"
    /\ \A y \in Workers : wk[y].pc # "latch2"
    /\ IF ~task.switched_to_single_thread
       THEN Commit([task EXCEPT !.switched_to_single_thread = TRUE, !.stop_event = TRUE],
                   objs, fs, [wk EXCEPT ![x].pc = "latch2"])
       ELSE Commit(task, objs, fs, [wk EXCEPT ![x].pc = "ret"])
    /\ UNCHANGED <<ft, cw, usr, srv, mgr>>

\* download_part: the single-stream transition after the sleep
W_latch2(x) ==
    /\ wk[x].pc = "latch2"
    /\ LET sp == single_mode(task, objs, wk)
           fx == FreeSlots(Fetchers, LAMBDA y : ft[y].pc = "dead", 1)
           t2 == [sp.t EXCEPT !.downloaded_size = 0, !.stop_event = FALSE,
                              !.switches = @ + 1,
                              !.threads = { FetcherId(y) : y \in fx }]
       IN  /\ fx # {} /\ sp.t.gen \in Gens
           /\ Commit(t2, sp.o, [fs EXCEPT !.temp = [exists |-> TRUE, size |-> 0]],
                     [wk EXCEPT ![x].pc = "ret"])
           /\ ft' = [y \in Fetchers |->
                        IF y \in fx THEN [DeadFetcher EXCEPT !.pc = "get"] ELSE ft[y]]
    /\ UNCHANGED <<cw, usr, srv, mgr>>

\* ---------------------------------------------------------- download_single
\* the status download_single leaves on an exception
single_error(t) ==
    [t EXCEPT !.status = IF t.stop_event THEN "paused" ELSE "error",
              !.error_message = "download_single"]

\* download_single: the GET, the Content-Length, the open of temp_path
F_get(y) ==
    /\ ft[y].pc = "get"
    /\ \E out \in {"ok"} \cup (srv.faults \cap {"sfail"}) :
        IF out = "ok"
        THEN /\ Commit([task EXCEPT !.total_size = IF srv.haslen THEN srv.body ELSE 0],
                       objs, [fs EXCEPT !.temp = [exists |-> TRUE, size |-> 0]], wk)
             /\ ft' = [ft EXCEPT ![y] = [pc |-> "stream", pos |-> 0,
                                         left |-> srv.body, h |-> "temp"]]
        ELSE /\ Commit(single_error(task), objs, fs, wk)
             /\ ft' = [ft EXCEPT ![y] = DeadFetcher]
    /\ UNCHANGED <<cw, usr, srv, mgr>>

\* download_single: one chunk, or the end of the body and complete_download
F_stream(y) ==
    /\ ft[y].pc = "stream"
    /\ LET rec == ft[y]
           n   == Min(Burst, rec.left)
       IN  IF rec.left = 0
           THEN LET r  == complete_download(task, fs)
                    rn == Renamed(task, fs)
                IN  /\ Commit(r.t, objs, r.f, MoveHandles(wk, fs, r.f, rn))
                    /\ ft' = MoveHandles([ft EXCEPT ![y] = DeadFetcher], fs, r.f, rn)
           ELSE IF task.stop_event
           THEN /\ Commit([task EXCEPT !.status = "paused"], objs, fs, wk)
                /\ ft' = [ft EXCEPT ![y] = DeadFetcher]
           ELSE /\ Commit([task EXCEPT !.downloaded_size = @ + n], objs,
                          WriteAt(fs, rec.h, rec.pos, n), wk)
                /\ ft' = [ft EXCEPT ![y].pos = @ + n, ![y].left = @ - n]
    /\ UNCHANGED <<cw, usr, srv, mgr>>

\* download_single: the connection breaks while the body is read
F_break(y) ==
    /\ ft[y].pc = "stream" /\ ft[y].left > 0
    /\ "sfail" \in srv.faults
    /\ Commit(single_error(task), objs, fs, wk)
    /\ ft' = [ft EXCEPT ![y] = DeadFetcher]
    /\ UNCHANGED <<cw, usr, srv, mgr>>

\* ----------------------------------------------------- check_completion_loop
\* the loop test
C_test(z) ==
    /\ cw[z] = "test"
    /\ cw' = [cw EXCEPT ![z] = IF task.stop_event \/ task.status # "downloading"
                               THEN "dead" ELSE "body"]
    /\ UNCHANGED <<task, objs, fs, wk, ft, usr, srv, mgr>>

Abs(a) == IF a < 0 THEN -a ELSE a

\* the loop body after the sleep; stalled: no progress for more than 5 ticks
C_body(z) ==
    /\ cw[z] = "body"
    /\ \E stalled \in BOOLEAN :
        LET active == Cardinality({ id \in task.threads :
                                      id # WatcherId(z) /\ Alive(id, wk, ft, cw) })
            d      == task.downloaded_size
            by_parts == /\ task.thread_count > 1
                        /\ (active = 0 \/ stalled)
                        /\ \/ AllCompleted(Parts(task, objs))
                           \/ task.total_size > 0 /\ Abs(d - task.total_size) <= 1024
            by_size  == /\ task.total_size > 0
                        /\ (d >= task.total_size \/ Abs(d - task.total_size) < 1024)
            t1 == IF ~by_parts /\ d > task.total_size
                  THEN [task EXCEPT !.downloaded_size = task.total_size] ELSE task
        IN  IF by_parts \/ by_size
            THEN /\ DoComplete(t1, objs, fs, wk)
                 /\ cw' = [cw EXCEPT ![z] = "dead"]
            ELSE /\ cw' = [cw EXCEPT ![z] = "test"]
                 /\ UNCHANGED <<task, objs, fs, wk, ft>>
    /\ UNCHANGED <<usr, srv, mgr>>

\* ------------------------------------------------------ scan_unfinished_tasks
CtorThreadCount == 10
CtorChunksPerPart == 100
CtorThreadsPerProxy == 3

\* scan_unfinished_tasks, for the progress file of the task
scan(l, t0, o0, w0) ==
    IF l.ret
    THEN Commit(l.t, l.o, l.f, w0)
    ELSE Commit([t0 EXCEPT !.status = "unregistered"], o0,
                [fs EXCEPT !.progress = NoProgress], w0)

\* The process exits and a new one starts: every thread ends, and
\* scan_unfinished_tasks builds the task again from its progress file (the
\* proxies come from the file), or removes a file that does not load.  The
\* window then starts a restored task it finds downloading or initialized.
Restart ==
    /\ Registered /\ usr.cancel_pc = "idle"
    /\ usr.restarts > 0
    /\ fs.progress.exists
    /\ scan(load_progress([NewTask(0, CtorThreadCount, CtorThreadsPerProxy,
                                   CtorChunksPerPart) EXCEPT !.proxies = srv.proxies],
                          [g \in Gens |-> <<>>], fs, [x \in Workers |-> DeadWorker]),
            [NewTask(0, CtorThreadCount, CtorThreadsPerProxy, CtorChunksPerPart)
                EXCEPT !.proxies = srv.proxies],
            [g \in Gens |-> <<>>], [x \in Workers |-> DeadWorker])
    /\ ft' = [y \in Fetchers |-> DeadFetcher]
    /\ cw' = [z \in Watchers |-> "dead"]
    /\ usr' = [usr EXCEPT !.restarts = @ - 1, !.starts = 1]
    /\ UNCHANGED <<srv, mgr>>

\* ------------------------------------------------------------ specification
\* a worker on a server that answers every range request
WorkerCore(x) ==
    \/ W_loop(x) \/ W_try(x) \/ W_req(x) \/ W_stream(x)
    \/ W_done(x) \/ W_save(x) \/ W_check(x) \/ W_ret(x)

Watcher(z) == C_test(z) \/ C_body(z)

\* Healthy multi-stream download through one proxy with two workers; the
\* caller starts the task, may pause and resume it once, and the process may
\* be restarted once.
Next ==
    \/ Start \/ Pause \/ Resume \/ Restart
    \/ \E x \in Workers : WorkerCore(x) \/ W_fail(x)
    \/ \E z \in Watchers : Watcher(z)

Init ==
    InitWith(Server(MiB + 1, TRUE, TRUE, {}, 1, 2, 2), User(1, 1, 1, 0, 1))

Spec == Init /\ [][Next]_vars

\* The same download, cancelled by the caller.
NextCancel ==
    \/ Start \/ CancelBegin \/ CancelEnd
    \/ \E x \in Workers : WorkerCore(x) \/ W_fail(x)
    \/ \E z \in Watchers : Watcher(z)

InitCancel ==
    InitWith(Server(MiB + 1, TRUE, TRUE, {}, 1, 2, 2), User(1, 0, 0, 1, 0))

SpecCancel == InitCancel /\ [][NextCancel]_vars

\* A download without proxies, worker_count = 4, from a range-capable server
\* that answers every request.
DirectBodies == {MiB + 1, 2 * MiB, 10 * MiB + 1}

NextDirect ==
    \/ Start
    \/ \E x \in Workers : W_loop(x)
    \/ \E z \in Watchers : Watcher(z)

InitDirect ==
    \E body \in DirectBodies :
        InitWith(Server(body, TRUE, TRUE, {}, 0, 4, CtorThreadsPerProxy), User(1, 0, 0, 0, 0))

SpecDirect == InitDirect /\ [][NextDirect]_vars

\* A server that answers some range requests with 416, and whose single-stream
\* responses may break; the process may be restarted once and the restored
\* task resumed.
Next416 ==
    \/ Start \/ Resume \/ Restart
    \/ \E x \in Workers :
          \/ WorkerCore(x) \/ W_stream_raw(x) \/ W_fail(x)
          \/ W_latch(x) \/ W_latch2(x)
    \/ \E y \in Fetchers : F_get(y) \/ F_stream(y) \/ F_break(y)
    \/ \E z \in Watchers : Watcher(z)

Init416 ==
    InitWith(Server(MiB + 1, TRUE, TRUE, {"416", "sfail"}, 1, 2, 2), User(1, 0, 1, 0, 1))

Spec416 == Init416 /\ [][Next416]_vars

\* A server that advertises ranges and answers every range request with 416;
\* the caller may pause and resume the task once.
NextLatched ==
    \/ Start \/ Pause \/ Resume
    \/ \E x \in Workers :
          \/ W_loop(x) \/ W_try(x) \/ W_req(x) \/ W_ret(x)
          \/ W_latch(x) \/ W_latch2(x)
    \/ \E y \in Fetchers : F_get(y) \/ F_stream(y)
    \/ \E z \in Watchers : Watcher(z)

InitLatched ==
    InitWith(Server(MiB + 1, TRUE, TRUE, {"reject"}, 1, 2, 2), User(1, 1, 1, 0, 0))

SpecLatched == InitLatched /\ [][NextLatched]_vars

\* A server that sends more than the range asked for; requests may fail.
NextOver ==
    \/ Start
    \/ \E x \in Workers :
          \/ WorkerCore(x) \/ W_stream_raw(x) \/ W_fail(x)
    \/ \E z \in Watchers : Watcher(z)

InitOver ==
    InitWith(Server(MiB + 1, TRUE, TRUE, {"over", "fail"}, 1, 2, 2), User(1, 0, 0, 0, 0))

SpecOver == InitOver /\ [][NextOver]_vars

\* _init_parts on its own: the size, the worker count and the segments per
\* worker are drawn from bounded sets, and the one action builds the segments.
MaxPlanMiB == 10
MaxPlanChunks == 3

PlanSizes ==
    { k * MiB + r : k \in 0..MaxPlanMiB, r \in {0, 1, MiB - 1} } \ {0}

Plan ==
    /\ Parts(task, objs) = <<>>
    /\ task.status = "initialized"
    /\ Commit([task EXCEPT !.gen = init_parts(task, objs, wk).t.gen, !.status = "planned"],
              init_parts(task, objs, wk).o, fs, wk)
    /\ UNCHANGED <<ft, cw, usr, srv, mgr>>

\* prepare(), the plan of a range-capable source of at least 1 MiB:
\* _adjust_chunk_size, then _init_parts
PlanAdjusted ==
    /\ Parts(task, objs) = <<>>
    /\ task.status = "initialized"
    /\ Commit([init_parts(adjust_chunk_size(task), objs, wk).t EXCEPT !.status = "prepared"],
              init_parts(adjust_chunk_size(task), objs, wk).o, fs, wk)
    /\ UNCHANGED <<ft, cw, usr, srv, mgr>>

NextPlan == Plan \/ PlanAdjusted

InitPlan ==
    \E total_size \in PlanSizes, thread_count \in 1..MaxThreads,
       chunks_per_part \in (1..MaxPlanChunks) \cup {DefaultChunksPerPart} :
        InitTask(Server(total_size, TRUE, TRUE, {}, 0, thread_count, CtorThreadsPerProxy),
                 User(0, 0, 0, 0, 0),
                 [NewTask(0, thread_count, CtorThreadsPerProxy, chunks_per_part)
                     EXCEPT !.total_size = total_size, !.supports_range = TRUE])

SpecPlan == InitPlan /\ [][NextPlan]_vars

\* One start() of a fresh task, over the shapes prepare() tells apart: body
\* below, at and above 1 MiB, with or without Accept-Ranges and
\* Content-Length, one proxy (one or two threads per proxy) or none (one
\* thread), the proxy answering the HEAD or not.
ModeBodies == {MiB \div 2, MiB, MiB + 1}
ModeThreads == {<<1, 1>>, <<1, 2>>, <<0, 1>>}

NextModes ==
    \/ Start
    \/ \E x \in Workers : WorkerCore(x) \/ W_fail(x)
    \/ \E y \in Fetchers : F_get(y) \/ F_stream(y)
    \/ \E z \in Watchers : Watcher(z)

InitModes ==
    \E body \in ModeBodies, accept \in BOOLEAN, haslen \in BOOLEAN,
       th \in ModeThreads, faults \in {{}, {"proxydown"}} :
        InitWith(Server(body, accept, haslen, faults, th[1], 1, th[2]),
                 User(1, 0, 0, 0, 0))

SpecModes == InitModes /\ [][NextModes]_vars

\* ------------------------------------------------------------------ claims
NoWorkerAlive == \A x \in Workers : wk[x].pc = "dead"
NoFetcherAlive == \A y \in Fetchers : ft[y].pc = "dead"
NoWatcherAlive == \A z \in Watchers : cw[z] = "dead"

\* C1: a download without proxies from a range-capable server, total_size
\* above 1 MiB, four workers, every fetch succeeding, never paused or
\* cancelled, goes Initialized -> Downloading -> Completed: once start() has
\* run and every thread it spawned has ended, status is Completed, the final
\* file holds total_size bytes and progress_path is absent.
C1_DirectCompletes ==
    (usr.starts = 0 /\ NoWorkerAlive /\ NoFetcherAlive /\ NoWatcherAlive) =>
        /\ task.status = "completed"
        /\ fs.final.exists /\ fs.final.size = task.total_size
        /\ ~fs.progress.exists

\* the segments ps cover [0, total_size) in order, without gap or overlap
Partition(ps, total_size) ==
    /\ Len(ps) >= 1
    /\ ps[1].start = 0
    /\ ps[Len(ps)].end = total_size - 1
    /\ \A i \in 1..Len(ps) : ps[i].start <= ps[i].end
    /\ \A i \in 1..(Len(ps) - 1) : ps[i + 1].start = ps[i].end + 1

\* C8: for every total_size > 0, worker count in 1..32 and segments per
\* worker >= 1, the segments _init_parts builds partition [0, total_size):
\* the first starts at 0, each next one starts at the previous end + 1, the
\* last ends at total_size - 1, and no two overlap.
C8_Partition ==
    task.status = "planned" => Partition(Parts(task, objs), task.total_size)

\* _init_parts ran and built several segments, the last one longer than the
\* first because it absorbs the remainder
C8_Witness ==
    /\ task.status = "planned"
    /\ Len(Parts(task, objs)) >= 3
    /\ Parts(task, objs)[Len(Parts(task, objs))].end
         - Parts(task, objs)[Len(Parts(task, objs))].start
       > Parts(task, objs)[1].end - Parts(task, objs)[1].start

\* the task is left downloading although nothing can fetch any more: no
\* worker or fetcher is alive, segments are unfinished, and more is missing
\* than the completion watcher tolerates
Stalled ==
    /\ task.status = "downloading"
    /\ NoWorkerAlive /\ NoFetcherAlive
    /\ ~AllCompleted(Parts(task, objs))
    /\ task.total_size - task.downloaded_size > KiB

\* C2: resume liveness.  A healthy multi-stream task that is paused (workers
\* possibly mid-segment) and resumed still reaches downloaded_size =
\* total_size and Completed, every segment claimed but unfinished at the pause
\* being fetched after the resume: after the resume the task is never left
\* stalled.
C2_ResumeCompletes ==
    (usr.pauses = 0 /\ usr.resumes = 0 /\ usr.restarts = 1) => ~Stalled

\* C3: recovery after restart.  A task paused part-way and restored by
\* scan_unfinished_tasks in a new process is Paused with the checkpointed
\* downloaded_size, and after resume its unfinished segments are claimed and
\* fetched until the task is Completed: after that resume the task is never
\* left stalled.
C3_RestartCompletes ==
    (usr.pauses = 0 /\ usr.restarts = 0 /\ usr.resumes = 0) => ~Stalled

\* C4: in every reachable state status = Completed implies that final_path
\* exists and that temp_path and progress_path do not, whatever the
\* interleaving of the workers finishing their last segments, the completion
\* watcher and prepare().
C4_CompletedFiles ==
    task.status = "completed" =>
        fs.final.exists /\ ~fs.temp.exists /\ ~fs.progress.exists

\* C5: in every reachable state after cancel() has returned, status =
\* Canceled implies that temp_path and progress_path do not exist, also when
\* workers or the single-stream fetcher were still running when cancel()
\* stopped waiting for them.
C5_CanceledFiles ==
    (usr.cancel_pc = "done" /\ task.status = "canceled") =>
        ~fs.temp.exists /\ ~fs.progress.exists

\* the task t is latched in single-stream mode
Latched(t, o) == t.switched_to_single_thread /\ Parts(t, o) = <<>>

\* C6: 416 latch.  Once a worker has observed HTTP 416 and the task has
\* switched, switched_to_single_thread stays true and parts stays empty in
\* every later state, across pause, resume, error and restart.
C6_LatchPersists ==
    [][Latched(task, objs) => Latched(task', objs')]_vars

\* a step in which a multi-stream worker writes, counts or finalizes
LateWorkerStep ==
    \E x \in Workers : W_stream(x) \/ W_stream_raw(x) \/ W_done(x) \/ W_check(x)

\* C7: after the 416 latch fired and downloaded_size was reset, the task is
\* finalized only by the single-stream fetcher once it has written the whole
\* body: no multi-stream worker that was still running at the latch writes
\* into the temp file, adds to downloaded_size or finalizes afterwards, so
\* that the final file has exactly total_size bytes.
C7_NoLateWorker ==
    [][(Latched(task, objs) /\ LateWorkerStep) =>
           /\ task'.downloaded_size = task.downloaded_size
           /\ task'.status = task.status
           /\ fs'.temp = fs.temp /\ fs'.final = fs.final]_vars

\* C9: in every reachable state every segment of the task has
\* start <= current <= end + 1, under the three transports, truncation of
\* over-long bodies, returns on the stop signal and reload of a checkpoint.
C9_CurrentInRange ==
    \A i \in 1..Len(Parts(task, objs)) :
        /\ Parts(task, objs)[i].start <= Parts(task, objs)[i].current
        /\ Parts(task, objs)[i].current <= Parts(task, objs)[i].end + 1

\* C10: in a multi-stream task downloaded_size is the sum over the segments of
\* current - start, clamped to total_size; in single-stream mode it is the
\* number of bytes written to the temp file, also after a pause and resume of
\* the single-stream download.  Stated for the single-stream mode: while the
\* one fetcher of a latched task streams, downloaded_size is the number of
\* bytes it has written.
C10_CountsBytes ==
    Latched(task, objs) =>
        \A y \in Fetchers :
            (ft[y].pc = "stream" /\ \A z \in Fetchers \ {y} : ft[z].pc = "dead") =>
                task.downloaded_size = ft[y].pos

\* C11: in every reachable state with total_size > 0, downloaded_size lies in
\* [0, total_size], also after the 416 latch, after a resumed single-stream
\* download and while several workers update the counter.
C11_SizeInRange ==
    task.total_size > 0 =>
        0 <= task.downloaded_size /\ task.downloaded_size <= task.total_size

\* the step is taken by the task object of the running process
SameProcess == usr'.restarts = usr.restarts

\* C12: downloaded_size of a task never decreases from one state to the next,
\* over worker chunk writes, pause, resume (which reloads the checkpoint) and
\* start.
C12_NeverDecreases ==
    [][SameProcess => task'.downloaded_size >= task.downloaded_size]_vars

Permitted ==
    { <<"initialized", "downloading">>, <<"downloading", "paused">>,
      <<"downloading", "completed">>, <<"downloading", "error">>,
      <<"paused", "downloading">>, <<"error", "downloading">> }
    \cup { <<st, "canceled">> : st \in {"initialized", "downloading", "paused", "error"} }

\* C13: every change of the status is one of the permitted transitions:
\* Initialized->Downloading, Downloading->Paused, Downloading->Completed,
\* Downloading->Error, Paused->Downloading, Error->Downloading, and any
\* non-terminal status->Canceled.
C13_PermittedTransitions ==
    [][(SameProcess /\ task'.status # task.status) =>
           <<task.status, task'.status>> \in Permitted]_vars

\* C14: Completed is terminal: once the status is Completed no later operation
\* (start, pause, resume, a late worker, the completion watcher, finalize)
\* changes it.
C14_CompletedTerminal ==
    [][(SameProcess /\ task.status = "completed") => task'.status = "completed"]_vars

\* C15: Canceled is terminal: once cancel() has set the status to Canceled, no
\* worker, single-stream fetcher or completion watcher still running changes
\* it.
C15_CanceledTerminal ==
    [][task.status = "canceled" => task'.status = "canceled"]_vars

\* C16: a multi-stream task becomes Completed through a download only if each
\* of its segments is completed: finalize is never invoked while a segment of
\* a non-empty plan is incomplete.
C16_CompleteOnlyWhenAllDone ==
    [][(SameProcess /\ task.status # "completed" /\ task'.status = "completed"
        /\ Parts(task, objs) # <<>>) =>
           AllCompleted(Parts(task, objs))]_vars

\* start() ran in this step
StartStep == usr'.starts < usr.starts

\* start() spawned one single-stream fetcher and no segment worker
SingleStreamRun ==
    /\ Cardinality({ y \in Fetchers : ft'[y].pc # "dead" }) = 1
    /\ \A x \in Workers : wk'[x].pc = "dead"

\* C17: start() runs download_single whenever total_size is unknown (0),
\* whenever the known total_size is below 1 MiB, and whenever the task has
\* latched to single-stream mode: one fetcher is spawned and no worker.
C17_SingleStreamCases ==
    [][(StartStep /\ task'.status = "downloading"
        /\ (task'.total_size < MiB \/ task'.switched_to_single_thread)) =>
           SingleStreamRun]_vars

\* C18: a task with proxies whose HEAD fails through every proxy and whose
\* direct HEAD returns 200 with Content-Length 524288 and no Accept-Ranges
\* runs single-stream with total_size 524288 and reaches Completed: once
\* start() has run and its threads have ended, the task is Completed.
C18_FallbackCompletes ==
    (/\ srv.proxies > 0 /\ "proxydown" \in srv.faults
     /\ srv.body = 524288 /\ srv.haslen /\ ~srv.accept
     /\ usr.starts = 0
     /\ NoWorkerAlive /\ NoFetcherAlive /\ NoWatcherAlive) =>
        task.status = "completed" /\ task.total_size = 524288

\* start() spawned segment workers over a non-empty plan and no fetcher
MultiStreamRun ==
    /\ \E x \in Workers : wk'[x].pc # "dead"
    /\ \A y \in Fetchers : ft'[y].pc = "dead"
    /\ Parts(task', objs') # <<>>

\* C19: with range support a task whose total_size is exactly 1 MiB is
\* prepared and run single-stream, and one whose total_size is 1 MiB + 1 is
\* prepared and run multi-stream (stated for a task with proxies, whose HEAD
\* the proxy answers).
C19_OneMiBBoundary ==
    [][(StartStep /\ srv.proxies > 0 /\ "proxydown" \notin srv.faults
        /\ srv.accept /\ srv.haslen) =>
           /\ srv.body = MiB => SingleStreamRun
           /\ srv.body = MiB + 1 => MultiStreamRun]_vars

\* C20: with range support and one worker, prepare builds one segment
\* spanning [0, total_size - 1], start spawns one worker, and that worker
\* claims and downloads the segment so that the task completes: once start()
\* has run and the worker has ended, the task is Completed (stated for a task
\* with one proxy and one thread per proxy, whose HEAD the proxy answers).
C20_OneWorkerCompletes ==
    (/\ srv.accept /\ srv.haslen /\ srv.body >= MiB
     /\ srv.proxies > 0 /\ "proxydown" \notin srv.faults
     /\ task.thread_count = 1 /\ ~task.switched_to_single_thread
     /\ usr.starts = 0
     /\ NoWorkerAlive /\ NoFetcherAlive) =>
        task.status = "completed"

\* the plan prepare() computed for total_size 10,485,761 and four workers
Scenario21 ==
    /\ task.status = "prepared"
    /\ task.total_size = 10 * MiB + 1
    /\ srv.thread_count = 4

\* the length of segment i of the plan
PartLen(i) == Parts(task, objs)[i].end - Parts(task, objs)[i].start + 1

\* C21: for total_size = 10,485,761, four workers and ten segments per worker
\* the plan has 40 segments of about 262,144 bytes each, the last one
\* absorbing the remainder.
C21_FortySegments ==
    Scenario21 =>
        /\ Len(Parts(task, objs)) = 40
        /\ \A i \in 1..39 : PartLen(i) = 262144

\* C21, amended: for total_size = 10,485,761, four workers and ten segments
\* per worker the plan has 11 segments: ten of the nominal size
\* max(1 MiB, total_size / 40) = 1,048,576 bytes and a last one of 1 byte.
C21_ElevenSegments ==
    Scenario21 =>
        /\ task.thread_count = 4 /\ task.chunks_per_part = 10
        /\ Len(Parts(task, objs)) = 11
        /\ \A i \in 1..10 : PartLen(i) = MiB
        /\ PartLen(11) = 1

\* the plan of the scenario was computed
C21_Witness == Scenario21 /\ Len(Parts(task, objs)) > 1

\* a fresh task of the same URL, as scan_unfinished_tasks constructs it
FreshTask == NewTask(0, CtorThreadCount, CtorThreadsPerProxy, CtorChunksPerPart)

\* save_progress on the task followed by load_progress on a fresh task
Reloaded ==
    load_progress(FreshTask, [g \in Gens |-> <<>>], save_progress(task, objs, fs),
                  [x \in Workers |-> DeadWorker])

\* the sum of (current - start) over the segments of the task
SumCurrent ==
    SumSeq([i \in 1..Len(Parts(task, objs)) |->
              Parts(task, objs)[i].current - Parts(task, objs)[i].start])

\* C22: in every state whose downloaded_size equals the sum of
\* (current - start) over its segments, save_progress followed by a
\* load_progress that succeeds on a fresh task yields the same segment list
\* and the same downloaded_size.
C22_RoundTrip ==
    (task.downloaded_size = SumCurrent /\ Reloaded.ret) =>
        /\ Parts(Reloaded.t, Reloaded.o) = Parts(task, objs)
        /\ Reloaded.t.downloaded_size = task.downloaded_size

\* ---------------------------------------------------------- DownloadManager
Urls == {"u1", "u2"}
MaxTasks == 3

\* the key str(n) of add_task and the key n of scan_unfinished_tasks
StrId(n) == <<"str", n>>
IntId(n) == <<"int", n>>

\* self.tasks[url] = task; self.task_ids[task_id] = task
register(m, url, id) ==
    [m EXCEPT !.tasks = {p \in @ : p[1] # url} \cup {<<url, id>>},
              !.task_ids = @ \cup {<<id, url>>},
              !.next_id = @ + 1]

\* add_task
add_task(m, url) ==
    [register(m, url, StrId(m.next_id))
        EXCEPT !.ret = Returned("add_task", "", 0, StrId(m.next_id))]

\* start_task; ok is what task.start() returns
start_task(m, id, ok) ==
    IF \E p \in m.task_ids : p[1] = id
    THEN [m EXCEPT !.started = @ \cup {id}, !.ret.code = IF ok THEN 200 ELSE 500]
    ELSE [m EXCEPT !.ret.code = 500]

AddTask ==
    /\ mgr.next_id <= MaxTasks
    /\ \E url \in Urls : mgr' = add_task(mgr, url)
    /\ UNCHANGED <<task, objs, fs, wk, ft, cw, usr, srv>>

\* A checkpoint file found by the scan.  kind tells how far loading it gets:
\* "badjson" does not parse, "nourl" parses to an object without 'url',
\* "nofield" lacks another required field, "notemp" names a missing temp
\* file, "completed" holds status completed, "ok" loads.
CheckpointKinds == {"ok", "badjson", "nourl", "nofield", "notemp", "completed"}
Checkpoint(name, kind, url) == [name |-> name, kind |-> kind, url |-> url]

\* json.load(f) and progress_data['url'] raise nothing
Parses(f) == f.kind \notin {"badjson", "nourl"}
\* task.load_progress() returns True
Loads(f) == f.kind = "ok"

RECURSIVE scan_loop(_, _, _)
\* the loop of scan_unfinished_tasks over the progress files, in listing order
scan_loop(m, files, count) ==
    IF files = <<>> THEN [m EXCEPT !.ret = Returned("scan", "", count, NoId)]
    ELSE IF ~Parses(Head(files))
         THEN scan_loop(m, Tail(files), count)
    ELSE IF \E p \in m.tasks : p[1] = Head(files).url
         THEN scan_loop(m, Tail(files), count)
    ELSE IF Loads(Head(files))
         THEN scan_loop(register(m, Head(files).url, IntId(m.next_id)),
                        Tail(files), count + 1)
    ELSE scan_loop([m EXCEPT !.disk = @ \ {Head(files)}], Tail(files), count)

\* the orders os.listdir may list the files in
Listings(d) ==
    {l \in UNION {[1..n -> d] : n \in {Cardinality(d)}} :
        \A i, j \in 1..Len(l) : i # j => l[i] # l[j]}

ScanUnfinished ==
    /\ mgr.next_id + Cardinality(mgr.disk) <= MaxTasks + 1
    /\ \E l \in Listings(mgr.disk) : mgr' = scan_loop(mgr, l, 0)
    /\ UNCHANGED <<task, objs, fs, wk, ft, cw, usr, srv>>

\* the local endpoint
Paths == {"/", "/ping", "/other"}
Bodies == {"empty", "badjson", "nourl"} \cup Urls

\* do_GET
do_GET(m, path) ==
    [m EXCEPT !.ret = Returned("GET", path, IF path = "/ping" THEN 200 ELSE 404,
                               NoId)]

\* do_POST; ok is what task.start() returns
do_POST(m, path, body, ok) ==
    IF body \in {"empty", "badjson", "nourl"}
    THEN [m EXCEPT !.ret = Returned("POST", path, 400, NoId)]
    ELSE start_task([add_task(m, body) EXCEPT !.ret.op = "POST", !.ret.arg = path],
                    StrId(m.next_id), ok)

HttpGet ==
    /\ \E path \in Paths : mgr' = do_GET(mgr, path)
    /\ UNCHANGED <<task, objs, fs, wk, ft, cw, usr, srv>>

HttpPost ==
    /\ mgr.next_id <= MaxTasks
    /\ \E path \in Paths, body \in Bodies, ok \in BOOLEAN :
          mgr' = do_POST(mgr, path, body, ok)
    /\ UNCHANGED <<task, objs, fs, wk, ft, cw, usr, srv>>

\* The manager of one process: the window and the endpoint add tasks, the
\* window scans the download directory, which holds up to two checkpoint
\* files left by earlier runs.
NextRegistry == AddTask \/ ScanUnfinished \/ HttpGet \/ HttpPost

CheckpointsNamed(n) == {Checkpoint(n, k, u) : k \in CheckpointKinds, u \in Urls}

DiskChoices ==
    {{}} \cup {{f} : f \in CheckpointsNamed("f1")}
         \cup {{f, g} : f \in CheckpointsNamed("f1"), g \in CheckpointsNamed("f2")}

InitRegistry ==
    \E d \in DiskChoices :
        InitManaged(Server(MiB + 1, TRUE, TRUE, {}, 1, 2, 2), User(0, 0, 0, 0, 0),
                    NewTask(1, 2, 2, DefaultChunksPerPart),
                    [NewManager EXCEPT !.disk = d])

SpecRegistry == InitRegistry /\ [][NextRegistry]_vars

\* C23: at most one task of the registry (task_ids) has a given URL.
C23_OneTaskPerUrl ==
    \A p, q \in mgr.task_ids : p[2] = q[2] => p = q

\* a step of scan_unfinished_tasks
ScanStep == mgr'.ret.op = "scan" /\ mgr' # mgr

\* the URL of checkpoint f is a key of the registry m.tasks
UrlRegistered(m, f) == Parses(f) /\ \E p \in m.tasks : p[1] = f.url

\* C24: scan_unfinished_tasks registers no checkpoint whose URL is already in
\* the registry and leaves its file alone, removes from disk every checkpoint
\* that fails to load (unparsable JSON, missing required field, missing temp
\* file, status completed) unless its URL is registered, and returns the
\* number of tasks it added to the registry.
C24_ScanDeletesUnloadable ==
    [][ScanStep =>
          /\ \A f \in mgr.disk :
                UrlRegistered(mgr, f) =>
                    /\ f \in mgr'.disk
                    /\ \A p \in mgr'.task_ids \ mgr.task_ids : p[2] # f.url
          /\ \A f \in mgr.disk :
                (~Loads(f) /\ ~UrlRegistered(mgr', f)) => f \notin mgr'.disk
          /\ mgr'.ret.code = Cardinality(mgr'.task_ids \ mgr.task_ids)]_vars

\* a request answered by the endpoint
HttpStep == mgr'.ret.op \in {"GET", "POST"} /\ mgr' # mgr

\* the routes of the endpoint: POST / and GET /ping
Routed(r) == (r.op = "POST" /\ r.arg = "/") \/ (r.op = "GET" /\ r.arg = "/ping")

\* C30: a request to any path other than the routes POST / and GET /ping is
\* answered 404 and creates no task.
C30_OtherPaths404 ==
    [][(HttpStep /\ ~Routed(mgr'.ret)) =>
          /\ mgr'.ret.code = 404
          /\ mgr'.task_ids = mgr.task_ids]_vars

\* the download_thread threads that have not ended
LiveWorkers == {x \in Workers : wk[x].pc # "dead"}

\* C25: the number of live worker threads of the task never exceeds
\* threads_per_proxy x the number of proxies when the task has proxies, or
\* thread_count otherwise, after any sequence of start, pause and resume.
C25_LiveWorkersBounded ==
    Cardinality(LiveWorkers) <=
        IF task.proxies > 0 THEN task.threads_per_proxy * task.proxies
        ELSE task.thread_count

\* One start() of a fresh task on a healthy network, over body sizes above
\* 1 MiB and the ways the task is configured: <<proxies, threads per proxy,
\* thread_count>>.
SpawnBodies == {MiB + 1, 10 * MiB + 1, 100 * MiB}
SpawnConfigs == {<<2, 3, 8>>, <<1, 3, 8>>, <<2, 2, 8>>, <<1, 1, 1>>,
                 <<0, 3, 4>>, <<0, 3, 6>>, <<0, 3, 1>>}

InitSpawn ==
    \E body \in SpawnBodies, accept \in BOOLEAN, haslen \in BOOLEAN,
       c \in SpawnConfigs, faults \in {{}, {"proxydown"}} :
        InitWith(Server(body, accept, haslen, faults, c[1], c[3], c[2]),
                 User(1, 0, 0, 0, 0))

SpecSpawn == InitSpawn /\ [][Start]_vars

\* start() took its multi-stream branch on a range-capable source of known
\* size above 1 MiB
MultiStreamStart ==
    /\ StartStep /\ task'.status = "downloading"
    /\ task'.supports_range /\ task'.total_size > MiB
    /\ ~task'.switched_to_single_thread

\* the threads alive after the step that were not alive before it
SpawnedWorkers == {x \in Workers : wk'[x].pc # "dead" /\ wk[x].pc = "dead"}
SpawnedWatchers == {z \in Watchers : cw'[z] # "dead" /\ cw[z] = "dead"}

\* start() spawned threads_per_proxy workers per proxy for a task with
\* proxies, thread_count workers for a task without, one watcher, no fetcher
SpawnCounts ==
    /\ Cardinality(SpawnedWorkers) =
          IF srv.proxies > 0 THEN srv.proxies * srv.threads_per_proxy
          ELSE srv.thread_count
    /\ Cardinality(SpawnedWatchers) = 1
    /\ \A y \in Fetchers : ft'[y].pc = "dead"

Retry ==
    /\ Registered /\ usr.cancel_pc = "idle"
    /\ usr.retries > 0
    /\ task.status = "error"
    /\ srv.faults = {}
    /\ \E hp \in ProxyHeadResps, hd \in HeadResps("dheadfail") : start(hp, hd)
    /\ usr' = [usr EXCEPT !.retries = @ - 1]

\* the source recovers: from now on no request fails
Heal ==
    /\ task.status = "error"
    /\ srv.faults # {}
    /\ srv' = [srv EXCEPT !.faults = {}]
    /\ UNCHANGED <<task, objs, fs, wk, ft, cw, usr, mgr>>

\* A source whose range requests may fail until a segment has used up its
\* retries; the source then recovers and the caller starts the task again.
NextRetry ==
    \/ Start \/ Retry \/ Heal
    \/ \E x \in Workers : WorkerCore(x) \/ W_fail(x)
    \/ \E z \in Watchers : Watcher(z)

InitRetry ==
    InitWith(Server(MiB + 1, TRUE, TRUE, {"fail"}, 1, 2, 2),
             [User(1, 0, 0, 0, 0) EXCEPT !.retries = 1])

SpecRetry == InitRetry /\ [][NextRetry]_vars

\* C27: a task that entered Error because a segment used up its retries
\* recovers when it is started again on a healthy source: the failed segment
\* is fetched again and the task reaches Completed, so that after the second
\* start the task is never left stalled.
C27_ErrorRecoverable ==
    usr.retries = 0 => ~Stalled

\* ------------------------------------------------------------ proxy registry
ProxyNames == {"a", "b", "c"}
MaxProxyId == 4

\* load_config with the next id taken from the number of proxies
load_config_by_count(m) ==
    [NewManager EXCEPT !.socks_proxies = m.socks_proxies,
                       !.next_proxy_id = Cardinality(m.socks_proxies) + 1]

\* DownloadManager.__init__ and load_config in a new process: the proxies are
\* those save_config wrote, the next id is one above the largest int(id)
load_config(m) ==
    [NewManager EXCEPT !.socks_proxies = m.socks_proxies,
                       !.next_proxy_id =
                           IF m.socks_proxies = {} THEN 1
                           ELSE (CHOOSE n \in {p[1][2] : p \in m.socks_proxies} :
                                          \A p \in m.socks_proxies : p[1][2] <= n) + 1]

\* add_socks_proxy
add_socks_proxy(m, name) ==
    IF \E p \in m.socks_proxies : p[2] = name
    THEN [m EXCEPT !.ret = Returned("add_socks_proxy", name, 0, NoId)]
    ELSE [m EXCEPT !.socks_proxies =
                       {p \in @ : p[1] # StrId(m.next_proxy_id)}
                           \cup {<<StrId(m.next_proxy_id), name>>},
                   !.next_proxy_id = @ + 1,
                   !.ret = Returned("add_socks_proxy", name, 0, StrId(m.next_proxy_id))]

\* delete_socks_proxy; the code returned is 1 for True, 0 for False
delete_socks_proxy(m, id) ==
    IF \E p \in m.socks_proxies : p[1] = id
    THEN [m EXCEPT !.socks_proxies = {p \in @ : p[1] # id},
                   !.ret = Returned("delete_socks_proxy", "", 1, id)]
    ELSE [m EXCEPT !.ret = Returned("delete_socks_proxy", "", 0, id)]

AddSocksProxy ==
    /\ mgr.next_proxy_id <= MaxProxyId
    /\ \E name \in ProxyNames : mgr' = add_socks_proxy(mgr, name)
    /\ UNCHANGED <<task, objs, fs, wk, ft, cw, usr, srv>>

DeleteSocksProxy ==
    /\ \E n \in 1..MaxProxyId : mgr' = delete_socks_proxy(mgr, StrId(n))
    /\ UNCHANGED <<task, objs, fs, wk, ft, cw, usr, srv>>

LoadConfig ==
    /\ mgr' = load_config(mgr)
    /\ UNCHANGED <<task, objs, fs, wk, ft, cw, usr, srv>>

\* The proxy dialog adds and deletes proxies; the program may be closed and
\* opened again.
NextProxies == AddSocksProxy \/ DeleteSocksProxy \/ LoadConfig

InitProxies ==
    InitTask(Server(MiB + 1, TRUE, TRUE, {}, 1, 2, 2), User(0, 0, 0, 0, 0),
             NewTask(1, 2, 2, DefaultChunksPerPart))

SpecProxies == InitProxies /\ [][NextProxies]_vars

\* a call of add_socks_proxy
ProxyAddStep == mgr'.ret.op = "add_socks_proxy" /\ mgr' # mgr

\* C28: no two proxies of the registry have the same name; add_socks_proxy
\* with a name already present returns no id and leaves the registry
\* unchanged, and with a new name it returns an id that no proxy of the
\* registry had and registers the name under it.
C28_UniqueProxyNames ==
    [][/\ \A p, q \in mgr'.socks_proxies : p[2] = q[2] => p = q
       /\ ProxyAddStep =>
             IF \E p \in mgr.socks_proxies : p[2] = mgr'.ret.arg
             THEN /\ mgr'.ret.id = NoId
                  /\ mgr'.socks_proxies = mgr.socks_proxies
             ELSE /\ mgr'.ret.id # NoId
                  /\ \A p \in mgr.socks_proxies : p[1] # mgr'.ret.id
                  /\ mgr'.socks_proxies =
                         mgr.socks_proxies \cup {<<mgr'.ret.id, mgr'.ret.arg>>}]_vars

\* a duplicate name was refused after a proxy had been deleted, two proxies
\* being registered
C28_Witness ==
    /\ mgr.ret.op = "add_socks_proxy" /\ mgr.ret.id = NoId
    /\ Cardinality(mgr.socks_proxies) = 2
    /\ mgr.next_proxy_id > 3

\* ---------------------------------------------------------------- file names
\* The names a task may be given or may learn ("" is no name, "None" no
\* argument) and the download directories.
Names == {"", "download_file", "a", "b", "c", "d"}
Dirs == {"d1", "d2", "d3"}

\* os.path.join(save_dir, filename) and f"{path}{suffix}"
Join(dir, name) == <<dir, name>>
Suffixed(path, suffix) == path \o <<suffix>>

\* the four assignments that follow a change of self.filename
set_filename(t, name) ==
    [t EXCEPT !.filename = name,
              !.filepath = Join(t.save_dir, name),
              !.temp_filepath = Suffixed(Join(t.save_dir, name), ".downloading"),
              !.progress_filepath = Suffixed(Join(t.save_dir, name), ".progress")]

\* DownloadTask.__init__: the name given, or the basename of the URL path, or
\* 'download_file'
NamedTask(dir, filename, basename) ==
    set_filename(NewTask(1, 2, 2, DefaultChunksPerPart)
                    @@ [save_dir |-> dir, filename |-> "", filepath |-> <<>>,
                        temp_filepath |-> <<>>, progress_filepath |-> <<>>],
                 IF filename # "None" THEN filename
                 ELSE IF basename # "" THEN basename ELSE "download_file")

\* prepare and download_single: the name of the Content-Disposition header h
\* is taken when the task has none of its own
header_filename(t, h) ==
    IF t.filename \in {"download_file", ""} /\ h # "" THEN set_filename(t, h) ELSE t

\* prepare, the last attempt: the name try_extract_filename_from_url finds
url_filename(t, u) ==
    IF t.filename \in {"download_file", ""} /\ u \notin {"", "download_file"}
    THEN set_filename(t, u) ELSE t

\* load_progress: the name and the directory of the checkpoint d; old_temp
\* tells whether the temp file exists in the directory the checkpoint names
load_filename(t, d) ==
    IF d.filename # t.filename
    THEN [t EXCEPT !.filename = d.filename,
                   !.filepath = Join(t.save_dir, d.filename),
                   !.temp_filepath = Suffixed(Join(t.save_dir, d.filename), ".downloading")]
    ELSE t

load_save_dir(t, d) ==
    IF d.save_dir # t.save_dir /\ d.old_temp
    THEN set_filename([t EXCEPT !.save_dir = d.save_dir], t.filename)
    ELSE t

\* start() of a new task that finds a progress file at progress_path, left
\* there by another run: prepare returns after load_progress
StartLoaded ==
    /\ task.status = "initialized"
    /\ \E f \in Names, dir \in Dirs, old_temp \in BOOLEAN :
          task' = [load_save_dir(load_filename(task, [filename |-> f]),
                                 [save_dir |-> dir, old_temp |-> old_temp])
                      EXCEPT !.status = "downloading"]
    /\ UNCHANGED <<objs, fs, wk, ft, cw, usr, srv, mgr>>

\* start() of a new task without progress file: prepare reads the headers
StartFresh ==
    /\ task.status = "initialized"
    /\ \E h \in Names, u \in Names :
          task' = [url_filename(header_filename(task, h), u) EXCEPT !.status = "downloading"]
    /\ UNCHANGED <<objs, fs, wk, ft, cw, usr, srv, mgr>>

\* download_single reads the headers of its response
SingleResponse ==
    /\ task.status = "downloading"
    /\ \E h \in Names : task' = header_filename(task, h)
    /\ UNCHANGED <<objs, fs, wk, ft, cw, usr, srv, mgr>>

NextNames == StartLoaded \/ StartFresh \/ SingleResponse

InitNames ==
    \E dir \in Dirs, filename \in Names \cup {"None"}, basename \in {"", "a"} :
        InitTask(Server(MiB + 1, TRUE, TRUE, {}, 1, 2, 2), User(0, 0, 0, 0, 0),
                 NamedTask(dir, filename, basename))

SpecNames == InitNames /\ [][NextNames]_vars

\* C29: in every reachable state temp_path = final_path + ".downloading" and
\* progress_path = final_path + ".progress".
C29_PathsTogether ==
    /\ task.temp_filepath = Suffixed(task.filepath, ".downloading")
    /\ task.progress_filepath = Suffixed(task.filepath, ".progress")

\* ------------------------------------------------- the single-stream latch
\* worker x leaves the block guarded by switching_lock
LatchStep(x) == wk[x].pc \in {"latch", "latch2"} /\ wk'[x].pc = "ret"

\* C31: of the workers that observe HTTP 416 exactly one performs the
\* single-stream transition: a worker that finds the latch set changes no
\* task state, file or thread, and in the life of the task the transition
\* runs, and spawns its fetcher, at most once.
C31_OneTransition ==
    [][\A x \in Workers :
          LatchStep(x) =>
              IF wk[x].pc = "latch"
              THEN task' = task /\ fs' = fs /\ ft' = ft /\ objs' = objs
              ELSE task'.switches <= 1]_vars

\* C32: once a transport of download_part has received HTTP 416 for a
\* segment, the worker issues no further request for it, through the next
\* transport or a retry, and reads no body for it: its only steps are those
\* of the single-stream latch and the return.
C32_No416Retry ==
    [][\A x \in Workers :
          (SameProcess /\ wk[x].e416 /\ wk'[x] # wk[x]) =>
              wk[x].pc \in {"latch", "latch2", "ret"}]_vars

\* ------------------------------------------------------- the retry loop
\* A source whose range requests may fail; the caller may pause the task.
NextAttempts ==
    \/ Start \/ Pause
    \/ \E x \in Workers : WorkerCore(x) \/ W_fail(x)
    \/ \E z \in Watchers : Watcher(z)

InitAttempts ==
    InitWith(Server(MiB + 1, TRUE, TRUE, {"fail"}, 1, 2, 2), User(1, 1, 0, 0, 0))

SpecAttempts == InitAttempts /\ [][NextAttempts]_vars

\* worker x runs the block that follows the retry loop
FailStep(x) == wk[x].pc = "fail" /\ wk'[x].pc = "ret"

\* C33: download_part makes at most 3 attempts for a segment; when the
\* attempts end after the third failure with the stop signal clear the status
\* becomes error and error_message is not empty, and when they end with the
\* stop signal set the status becomes paused.
C33_ThreeAttempts ==
    [][\A x \in Workers :
          /\ wk'[x].pc \in {"try", "req", "stream"} => wk'[x].retry < max_retries
          /\ wk'[x].retry <= max_retries
          /\ FailStep(x) =>
                IF task.stop_event THEN task'.status = "paused"
                ELSE task'.status = "error" /\ task'.error_message # ""]_vars

\* a third attempt has failed with the stop signal clear
C33_Witness ==
    /\ task.status = "error" /\ task.error_message = "download_part"
    /\ ~task.stop_event
    /\ \E x \in Workers : wk[x].pc = "ret" /\ wk[x].retry = max_retries

\* ----------------------------------------------------------- Segment Pool
\* the workers inside download_part, each holding the segment it claimed
Holders == { x \in Workers : wk[x].pc # "dead" /\ wk[x].part # <<>> }

\* worker x gets a segment from get_next_part
ClaimStep(x) == wk[x].pc = "loop" /\ wk'[x].pc = "try"

\* C34: get_next_part hands out the segments of the pool in the order of the
\* plan, each to one worker, and a claimed segment is not in the pool again:
\* no two workers hold the same segment at the same time, also after pause
\* and resume.
C34_PoolClaims ==
    [][/\ \A x \in Workers :
             ClaimStep(x) => /\ wk'[x].part = Head(task.parts_pool)
                             /\ task'.parts_pool = Tail(task.parts_pool)
       /\ \A x, y \in Holders' : wk'[x].part[2] = wk'[y].part[2] => x = y
       /\ \A x \in Holders', i \in 1..Len(task'.parts_pool) :
             task'.parts_pool[i][2] # wk'[x].part[2]
       /\ \A i, j \in 1..Len(task'.parts_pool) :
             i < j => task'.parts_pool[i][2] < task'.parts_pool[j][2]]_vars

\* after a resume two workers hold the two segments
C34_Witness ==
    /\ usr.resumes = 0 /\ usr.restarts > 0
    /\ Cardinality(Holders) = 2
    /\ task.parts_pool = <<>>

\* ---------------------------------------------------------------- Finalize
\* a thread calls complete_download: a worker that finds every segment
\* completed, the fetcher at the end of its body, the completion watcher
CompleteCall ==
    \/ \E x \in Workers : /\ wk[x].pc = "check" /\ wk'[x].pc = "ret"
                          /\ AllCompleted(Parts(task, objs))
    \/ \E y \in Fetchers : ft[y].pc = "stream" /\ ft[y].left = 0 /\ ft'[y].pc = "dead"
    \/ \E z \in Watchers : cw[z] = "body" /\ cw'[z] = "dead"

\* C35: complete_download is idempotent: once the temp file has been renamed
\* to final_path, every later call leaves the status completed and changes
\* neither the task (end_time and the active time are recorded once) nor a
\* file.
C35_FinalizeOnce ==
    [][(SameProcess /\ CompleteCall /\ fs.final.exists) =>
           /\ task.status = "completed"
           /\ task'.status = "completed"
           /\ task'.error_message = task.error_message
           /\ fs' = fs]_vars

\* ------------------------------------------------------ the stop signal
\* download_part, transports 1 and 3: the check at the top of a chunk
\* iteration finds the stop signal clear
W_pass(x) ==
    /\ wk[x].pc = "stream" /\ wk[x].tr # 2
    /\ ~task.stop_event
    /\ wk[x].left > 0
    /\ Commit(task, objs, fs, [wk EXCEPT ![x].pc = "chunk"])
    /\ UNCHANGED <<ft, cw, usr, srv, mgr>>

\* download_part, transports 1 and 3: the rest of that iteration.  If the
\* stop signal was raised since the check, the chunk in hand is written and
\* counted all the same; otherwise the chunk is part of the next burst.
W_chunk(x) ==
    /\ wk[x].pc = "chunk"
    /\ LET rec == wk[x]
           p   == PartOf(objs, rec.part)
           n   == Min(chunk_size, rec.left)
           t2  == [task EXCEPT !.downloaded_size = @ + n]
           o2  == SetPart(objs, rec.part, [p EXCEPT !.current = rec.pos + n])
       IN  IF task.stop_event
           THEN Commit(t2, o2, save_on_tick(t2, o2, WriteAt(fs, rec.h, rec.pos, n)),
                       [wk EXCEPT ![x].pc = "stream", ![x].pos = @ + n, ![x].left = @ - n])
           ELSE Commit(task, objs, fs, [wk EXCEPT ![x].pc = "stream"])
    /\ UNCHANGED <<ft, cw, usr, srv, mgr>>

\* A healthy multi-stream download that the caller pauses.
NextStop ==
    \/ Start \/ Pause
    \/ \E x \in Workers : WorkerCore(x) \/ W_pass(x) \/ W_chunk(x)
    \/ \E z \in Watchers : Watcher(z)

InitStop ==
    InitWith(Server(MiB + 1, TRUE, TRUE, {}, 1, 2, 2), User(1, 1, 0, 0, 0))

SpecStop == InitStop /\ [][NextStop]_vars

\* C36: a worker that sees the stop signal between chunks records the
\* position of its segment and saves the checkpoint before it returns: once
\* the task is paused and every worker has stopped, the checkpoint on disk
\* holds the current position of every segment.
C36_CheckpointCurrent ==
    (task.status = "paused" /\ task.stop_event /\ NoWorkerAlive /\ fs.progress.exists) =>
        /\ Len(fs.progress.data.parts) = Len(Parts(task, objs))
        /\ \A i \in 1..Len(Parts(task, objs)) :
              fs.progress.data.parts[i].current = Parts(task, objs)[i].current

\* ------------------------------------------------- pause_task, resume_task
\* a pause() that does not look at the status
pause_any(t, o, f) ==
    World([t EXCEPT !.stop_event = TRUE, !.status = "paused"], o,
          save_progress([t EXCEPT !.stop_event = TRUE, !.status = "paused"], o, f), TRUE)

\* pause()
pause(t, o, f) ==
    IF t.status = "downloading"
    THEN World([t EXCEPT !.stop_event = TRUE, !.status = "paused"], o,
               save_progress([t EXCEPT !.stop_event = TRUE, !.status = "paused"], o, f),
               TRUE)
    ELSE World(t, o, f, FALSE)

\* the truth value a method returned
Truth(b) == IF b THEN 1 ELSE 0

\* pause_task, whatever the status of the task
PauseTask ==
    /\ Registered /\ usr.cancel_pc = "idle"
    /\ usr.pauses > 0
    /\ Commit(pause(task, objs, fs).t, objs, pause(task, objs, fs).f, wk)
    /\ mgr' = [mgr EXCEPT !.ret = Returned("pause_task", "", Truth(pause(task, objs, fs).ret),
                                           NoId)]
    /\ usr' = [usr EXCEPT !.pauses = @ - 1]
    /\ UNCHANGED <<ft, cw, srv>>

\* resume_task, whatever the status of the task
ResumeTask ==
    /\ Registered /\ usr.cancel_pc = "idle"
    /\ usr.resumes > 0
    /\ IF task.status = "paused"
       THEN \E hp \in ProxyHeadResps, hd \in HeadResps("dheadfail") :
               start_prepared(prepare(task, objs, fs, wk, hp, hd))
       ELSE UNCHANGED <<task, objs, fs, wk, ft, cw>>
    /\ mgr' = [mgr EXCEPT !.ret = Returned("resume_task", "", Truth(task.status = "paused"),
                                           NoId)]
    /\ usr' = [usr EXCEPT !.resumes = @ - 1]
    /\ UNCHANGED srv

\* A healthy multi-stream download; the caller starts the task once and calls
\* pause_task and resume_task once each, at any time.
NextCalls ==
    \/ Start \/ PauseTask \/ ResumeTask
    \/ \E x \in Workers : WorkerCore(x) \/ W_fail(x)
    \/ \E z \in Watchers : Watcher(z)

InitCalls ==
    InitWith(Server(MiB + 1, TRUE, TRUE, {}, 1, 2, 2), User(1, 1, 1, 0, 0))

SpecCalls == InitCalls /\ [][NextCalls]_vars

\* C37: pause() on a task that is not downloading returns False and changes
\* neither the task (status, stop signal) nor a file nor a thread; resume()
\* on a task that is not paused returns False, spawns no thread and changes
\* nothing either.
C37_RejectedCalls ==
    [][/\ (usr'.pauses < usr.pauses /\ task.status # "downloading") =>
             /\ mgr'.ret = Returned("pause_task", "", 0, NoId)
             /\ task' = task /\ fs' = fs /\ wk' = wk /\ ft' = ft /\ cw' = cw
       /\ (usr'.resumes < usr.resumes /\ task.status # "paused") =>
             /\ mgr'.ret = Returned("resume_task", "", 0, NoId)
             /\ task' = task /\ fs' = fs /\ wk' = wk /\ ft' = ft /\ cw' = cw]_vars

\* resume_task was refused on the task while it was downloading and
\* pause_task once it was completed
C37_Witness ==
    /\ mgr.ret = Returned("pause_task", "", 0, NoId)
    /\ task.status = "completed" /\ ~task.stop_event
    /\ usr.pauses = 0 /\ usr.resumes = 0
    /\ fs.final.exists

\* ------------------------------------------------- a source of unknown size
\* One start() of a task, with one proxy or none, on a source whose HEAD may
\* fail or carry no Content-Length and whose body may break; the caller may
\* pause the task.
NoSizeBodies == {MiB \div 2, MiB + 1}

NextNoSize ==
    \/ Start \/ Pause
    \/ \E x \in Workers : WorkerCore(x) \/ W_fail(x)
    \/ \E y \in Fetchers : F_get(y) \/ F_stream(y) \/ F_break(y)
    \/ \E z \in Watchers : Watcher(z)

InitNoSize ==
    \E body \in NoSizeBodies, haslen \in BOOLEAN, th \in {<<1, 2>>, <<0, 2>>},
       faults \in {{"sfail"}, {"proxydown", "dheadfail", "sfail"}} :
        InitWith(Server(body, TRUE, haslen, faults, th[1], th[2], th[2]),
                 User(1, 1, 0, 0, 0))

SpecNoSize == InitNoSize /\ [][NextNoSize]_vars

\* the one thread of the task is a single-stream fetcher that start() spawned
FetcherRun ==
    /\ ~task.switched_to_single_thread
    /\ \E y \in Fetchers : task.threads = {FetcherId(y)}

\* that fetcher reaches the end of its body
FetcherEnds ==
    \E y \in Fetchers : /\ task.threads = {FetcherId(y)}
                        /\ ft[y].pc = "stream" /\ ft[y].left = 0 /\ ft'[y].pc = "dead"

\* C38: when no HEAD gives a size, start() leaves total_size 0, thread_count
\* 1 and no segment, and spawns one single-stream fetcher and nothing else;
\* the task becomes completed in the step in which that fetcher reaches the
\* end of its body, and in no other step.
C38_NoSizeSingleStream ==
    [][/\ (StartStep /\ task'.total_size = 0) =>
             /\ task'.thread_count = 1 /\ Parts(task', objs') = <<>>
             /\ SingleStreamRun
             /\ \A z \in Watchers : cw'[z] = "dead"
             /\ FetcherRun'
       /\ (FetcherRun /\ FetcherEnds) => task'.status = "completed"
       /\ (FetcherRun /\ task.status # "completed" /\ task'.status = "completed") =>
             FetcherEnds]_vars

\* the fetcher of a task of unknown size has written the whole body and the
\* task is completed
C38_Witness ==
    /\ FetcherRun /\ NoFetcherAlive
    /\ task.status = "completed" /\ task.total_size = 0
    /\ fs.final.exists /\ fs.final.size = srv.body /\ srv.body > MiB

\* -------------------------------------------------------- dynamic scaling
\* _adjust_chunk_size on its own, for sizes up to more than 10 GiB: the size
\* is srv.mib * 1024 * 1024 + srv.rem bytes, and the worker count and the
\* segments per worker the caller supplied are drawn from bounded sets.
ScaleMiB == {1, 9, 10, 99, 100, 101, 500, 501, 1024, 1025, 5120, 5121, 10240, 10241}
ScaleChunks == {1, DefaultChunksPerPart, CtorChunksPerPart}
ScaleThreads == {2, 8, MaxThreads}

\* _adjust_chunk_size for the size of srv
Scale ==
    /\ task.status = "initialized"
    /\ task' = [task EXCEPT !.chunks_per_part = scale_chunks_per_part(srv.mib, srv.rem),
                            !.thread_count = scale_thread_count(srv.mib, @),
                            !.status = "prepared"]
    /\ UNCHANGED <<objs, fs, wk, ft, cw, usr, srv, mgr>>

InitScale ==
    \E mib \in ScaleMiB, rem \in {0, 1}, thread_count \in ScaleThreads,
       chunks_per_part \in ScaleChunks :
        InitTask([mib |-> mib, rem |-> rem]
                    @@ Server(0, TRUE, TRUE, {}, 0, thread_count, CtorThreadsPerProxy),
                 User(0, 0, 0, 0, 0),
                 [NewTask(0, thread_count, CtorThreadsPerProxy, chunks_per_part)
                     EXCEPT !.supports_range = TRUE])

SpecScale == InitScale /\ [][Scale]_vars

\* the size of srv is above k MiB
Above(k) == srv.mib > k \/ (srv.mib = k /\ srv.rem > 0)

\* C39: dynamic scaling sets segments_per_worker to 800, 500, 300, 200 or
\* 150 for a size above 10 GiB, 5 GiB, 1 GiB, 500 MiB or 100 MiB, and leaves
\* it at the value the caller supplied for every size of at most 100 MiB.
C39_Scaling ==
    [][task'.status = "prepared" =>
          task'.chunks_per_part =
              IF Above(10240) THEN 800
              ELSE IF Above(5120) THEN 500
              ELSE IF Above(1024) THEN 300
              ELSE IF Above(500) THEN 200
              ELSE IF Above(100) THEN 150
              ELSE task.chunks_per_part]_vars

\* ------------------------------------------------------------- cancel_task
\* cancel_task.  task.cancel() returns True whenever it is called; gone is
\* the set of checkpoint files it removed.  del self.tasks[url] raises
\* KeyError when the URL is no key of tasks; the statement after it is then
\* not reached and the answer records the exception.
cancel_task(m, id, gone) ==
    IF ~\E p \in m.task_ids : p[1] = id
    THEN [m EXCEPT !.ret = Returned("cancel_task", "", 0, id)]
    ELSE LET url == (CHOOSE p \in m.task_ids : p[1] = id)[2] IN
         IF \E q \in m.tasks : q[1] = url
         THEN [m EXCEPT !.tasks = {q \in @ : q[1] # url},
                        !.task_ids = {p \in @ : p[1] # id},
                        !.disk = @ \ gone,
                        !.ret = Returned("cancel_task", "", 1, id)]
         ELSE [m EXCEPT !.disk = @ \ gone,
                        !.ret = Returned("cancel_task", "KeyError", 0, id)]

\* the checkpoint files task.cancel() may find at the task's progress path
CancelRemoves(m, id) ==
    {{}} \cup {{f} : f \in {g \in m.disk : <<id, g.url>> \in m.task_ids}}

TaskIds == {StrId(n) : n \in 1..MaxTasks} \cup {IntId(n) : n \in 1..MaxTasks}

CancelTask ==
    /\ \E id \in TaskIds : \E gone \in CancelRemoves(mgr, id) :
          mgr' = cancel_task(mgr, id, gone)
    /\ UNCHANGED <<task, objs, fs, wk, ft, cw, usr, srv>>

\* The window's calls on the manager: add a task, cancel a task, scan the
\* download directory.
NextManager == AddTask \/ CancelTask \/ ScanUnfinished

SpecManager == InitRegistry /\ [][NextManager]_vars

\* every task of task_ids is the task stored in tasks under its URL, and
\* every task of tasks is in task_ids
RegistriesAgree(m) ==
    /\ \A p \in m.task_ids : <<p[2], p[1]>> \in m.tasks
    /\ \A q \in m.tasks : <<q[2], q[1]>> \in m.task_ids

\* a call of cancel_task
CancelStep == mgr'.ret.op = "cancel_task" /\ mgr' # mgr

\* C40: after any sequence of add_task, cancel_task and
\* scan_unfinished_tasks the two registries agree; cancel_task on a known id
\* removes the task from both and returns True without raising, and
\* cancel_task on an unknown id returns False and changes nothing.
C40_RegistriesAgree ==
    [][/\ RegistriesAgree(mgr')
       /\ CancelStep =>
             IF \E p \in mgr.task_ids : p[1] = mgr'.ret.id
             THEN /\ mgr'.ret.arg = "" /\ mgr'.ret.code = 1
                  /\ \A p \in mgr'.task_ids : p[1] # mgr'.ret.id
                  /\ \A q \in mgr'.tasks : q[2] # mgr'.ret.id
             ELSE /\ mgr'.ret.arg = "" /\ mgr'.ret.code = 0
                  /\ mgr'.task_ids = mgr.task_ids
                  /\ mgr'.tasks = mgr.tasks
                  /\ mgr'.disk = mgr.disk]_vars

====
